---------------------------- MODULE Spec2Model ----------------------------
(***************************************************************************)
(* Model of the technical-analysis core of the trading analyst:            *)
(*   api/utils/technical.py  - safe_float, TechnicalAnalyzer (indicator    *)
(*                             engine), SignalGenerator (signal fusion)    *)
(*                                                                         *)
(* Numbers.  A Python/numpy float is modelled as a pair <<n, d>>:          *)
(*   d > 0   the exact rational n/d in lowest terms,                       *)
(*   d = 0   a non-finite float: <<0,0>> NaN, <<1,0>> +inf, <<-1,0>> -inf, *)
(*   d < 0   Python's None (a missing value).                              *)
(* Arithmetic follows IEEE-754 for the non-finite cases (x/0 = +-inf,      *)
(* 0/0 = NaN, every comparison with NaN is false).  Finite arithmetic is   *)
(* exact, except for the two places where the result is irrational or its  *)
(* denominator grows with the length of the series (square root, the EMA   *)
(* recurrence): there the float's rounding is modelled as rounding to a    *)
(* multiple of 1/Resolution (to the nearest one for the EMA, downwards for *)
(* the square root).                                                       *)
(***************************************************************************)
EXTENDS Integers, Sequences, FiniteSets, TLC

\* ------------------------------------------------------------------ numbers

NaN    == <<0, 0>>
PosInf == <<1, 0>>
NegInf == <<-1, 0>>
None   == <<0, -1>>

AbsInt(a) == IF a < 0 THEN -a ELSE a
SignInt(a) == IF a < 0 THEN -1 ELSE IF a > 0 THEN 1 ELSE 0

RECURSIVE Gcd(_, _)
Gcd(a, b) == IF b = 0 THEN a ELSE Gcd(b, a % b)

\* the float n/d, d # 0 allowed negative, in lowest terms with d > 0
Frac(n, d) ==
    LET g == Gcd(AbsInt(n), AbsInt(d))
        s == IF d < 0 THEN -1 ELSE 1
    IN  <<(s * n) \div g, (s * d) \div g>>

Num(k) == <<k, 1>>

\* numerator and denominator of a float
N(x) == Head(x)
D(x) == Head(Tail(x))

IsNone(x)   == D(x) < 0
IsNaN(x)    == D(x) = 0 /\ N(x) = 0
IsInf(x)    == D(x) = 0 /\ N(x) # 0
IsFinite(x) == D(x) > 0

\* float negation and absolute value
RNeg(x) == IF IsFinite(x) \/ IsInf(x) THEN <<-N(x), D(x)>> ELSE x
RAbs(x) == IF IsFinite(x) \/ IsInf(x) THEN <<AbsInt(N(x)), D(x)>> ELSE x

\* float addition
RAdd(x, y) ==
    IF IsNaN(x) \/ IsNaN(y) THEN NaN
    ELSE IF IsInf(x) /\ IsInf(y) THEN (IF x = y THEN x ELSE NaN)
    ELSE IF IsInf(x) THEN x
    ELSE IF IsInf(y) THEN y
    ELSE LET g == Gcd(D(x), D(y))
         IN  Frac(N(x) * (D(y) \div g) + N(y) * (D(x) \div g), (D(x) \div g) * D(y))

RSub(x, y) == RAdd(x, RNeg(y))

\* float multiplication (cross-reduced before multiplying)
RMul(x, y) ==
    IF IsNaN(x) \/ IsNaN(y) THEN NaN
    ELSE IF IsInf(x) \/ IsInf(y)
         THEN (IF N(x) = 0 \/ N(y) = 0 THEN NaN
               ELSE <<SignInt(N(x)) * SignInt(N(y)), 0>>)
    ELSE LET g1 == Gcd(AbsInt(N(x)), D(y))
             g2 == Gcd(AbsInt(N(y)), D(x))
         IN  <<(N(x) \div g1) * (N(y) \div g2), (D(x) \div g2) * (D(y) \div g1)>>

\* numpy float division: a zero divisor gives +-inf or NaN, never an exception
RDiv(x, y) ==
    IF IsNaN(x) \/ IsNaN(y) THEN NaN
    ELSE IF IsInf(x) THEN (IF IsInf(y) THEN NaN
                           ELSE <<SignInt(N(x)) * (IF N(y) < 0 THEN -1 ELSE 1), 0>>)
    ELSE IF IsInf(y) THEN Num(0)
    ELSE IF N(y) = 0 THEN (IF N(x) = 0 THEN NaN ELSE <<SignInt(N(x)), 0>>)
    ELSE RMul(x, Frac(D(y), N(y)))

\* float comparisons: false as soon as one side is NaN
RLt(x, y) ==
    IF IsNaN(x) \/ IsNaN(y) THEN FALSE
    ELSE IF IsInf(x) \/ IsInf(y)
         THEN (IF IsInf(x) /\ IsInf(y) THEN N(x) < N(y)
               ELSE IF IsInf(x) THEN N(x) < 0 ELSE N(y) > 0)
    ELSE LET g == Gcd(D(x), D(y))
         IN  N(x) * (D(y) \div g) < N(y) * (D(x) \div g)
RGt(x, y) == RLt(y, x)
REq(x, y) == ~IsNaN(x) /\ ~IsNaN(y) /\ x = y
RLe(x, y) == RLt(x, y) \/ REq(x, y)
RGe(x, y) == RLe(y, x)

RMax(x, y) == IF RLt(x, y) THEN y ELSE x
RMin(x, y) == IF RLt(y, x) THEN y ELSE x

\* floor(n / d) for d > 0
FloorDiv(n, d) == IF n >= 0 THEN n \div d ELSE -((-n + d - 1) \div d)

\* n/d (d > 0) rounded to the nearest integer, ties to even
RoundHalfEven(n, d) ==
    LET q == FloorDiv(n, d)
        r == n - q * d
    IN  IF 2 * r < d THEN q
        ELSE IF 2 * r > d THEN q + 1
        ELSE IF q % 2 = 0 THEN q ELSE q + 1

RECURSIVE Pow10(_)
Pow10(k) == IF k = 0 THEN 1 ELSE 10 * Pow10(k - 1)

\* Python's round(x, ndigits) on a float; a non-finite float is returned as it is
Round(x, ndigits) ==
    IF ~IsFinite(x) THEN x
    ELSE LET p == Pow10(ndigits)
             g == Gcd(p, D(x))
         IN  Frac(RoundHalfEven(N(x) * (p \div g), D(x) \div g), p)

\* the precision at which the rounding of a float operation is modelled
Resolution == 1000

\* a finite float rounded to the nearest multiple of 1/Resolution
Quantize(x) ==
    IF ~IsFinite(x) THEN x
    ELSE LET g == Gcd(Resolution, D(x))
         IN  Frac(RoundHalfEven(N(x) * (Resolution \div g), D(x) \div g), Resolution)

\* floor of the square root of a natural number (bisection)
RECURSIVE ISqrtIn(_, _, _)
ISqrtIn(v, lo, hi) ==
    IF lo >= hi THEN lo
    ELSE LET mid == (lo + hi + 1) \div 2
         IN  IF mid * mid <= v THEN ISqrtIn(v, mid, hi) ELSE ISqrtIn(v, lo, mid - 1)
ISqrt(v) == ISqrtIn(v, 0, IF v < 46340 THEN v ELSE 46340)

\* numpy sqrt of a float: NaN for a negative or NaN argument
RSqrt(x) ==
    IF IsNaN(x) THEN NaN
    ELSE IF IsInf(x) THEN (IF N(x) > 0 THEN PosInf ELSE NaN)
    ELSE IF N(x) < 0 THEN NaN
    ELSE LET g == Gcd(Resolution * Resolution, D(x))
         IN  Frac(ISqrt(FloorDiv(N(x) * ((Resolution * Resolution) \div g), D(x) \div g)),
                  Resolution)

\* safe_float without the NaN/inf test: only a missing value is replaced
safe_float_PassThrough(value, default) ==
    IF IsNone(value) THEN default ELSE value

\* safe_float(value, default)
safe_float(value, default) ==
    IF IsNone(value) THEN default
    ELSE IF IsNaN(value) \/ IsInf(value) THEN default
    ELSE value


\* int(x): truncation towards zero
TruncInt(x) == IF N(x) >= 0 THEN N(x) \div D(x) ELSE -((-N(x)) \div D(x))

\* ------------------------------------------------------- pandas primitives
\* A column (pandas Series) is a sequence of floats.

\* Series.sum(): the additions are exact here, so their grouping does not change
\* the sum; the entries are added pairwise, as numpy's reduction adds them
SeqSum(col) ==
    LET RECURSIVE SumOver(_, _)
        SumOver(lo, hi) ==
            IF lo > hi THEN Num(0)
            ELSE IF lo = hi THEN RAdd(Num(0), col[lo])
            ELSE LET mid == (lo + hi) \div 2
                 IN  RAdd(SumOver(lo, mid), SumOver(mid + 1, hi))
    IN  SumOver(1, Len(col))

\* Series.tail(k)
Tail_(col, k) ==
    IF Len(col) <= k THEN col ELSE SubSeq(col, Len(col) - k + 1, Len(col))

\* Series.mean() (NaN entries are skipped; no entry at all gives NaN)
Mean(col) ==
    LET kept == SelectSeq(col, LAMBDA x : ~IsNaN(x))
    IN  IF Len(kept) = 0 THEN NaN ELSE RDiv(SeqSum(kept), Num(Len(kept)))

\* Series.rolling(window).mean().iloc[-1]: NaN unless the last `window` entries
\* exist and none of them is NaN (min_periods = window)
RollingMeanLast(col, window) ==
    IF Len(col) < window THEN NaN
    ELSE LET w == Tail_(col, window)
         IN  IF \E i \in 1..window : IsNaN(w[i]) THEN NaN
             ELSE RDiv(SeqSum(w), Num(window))

\* Series.rolling(window).std().iloc[-1]: the sample standard deviation (ddof = 1)
RollingStdLast(col, window) ==
    IF Len(col) < window THEN NaN
    ELSE LET w  == Tail_(col, window)
             m  == RDiv(SeqSum(w), Num(window))
             sq == [i \in 1..window |-> RMul(RSub(w[i], m), RSub(w[i], m))]
         IN  IF \E i \in 1..window : IsNaN(w[i]) THEN NaN
             ELSE RSqrt(RDiv(SeqSum(sq), Num(window - 1)))

\* Series.diff(): the first entry has no predecessor and is NaN
Diff(col) == [i \in 1..Len(col) |-> IF i = 1 THEN NaN ELSE RSub(col[i], col[i - 1])]

\* Series.shift(1)
Shift1(col) == [i \in 1..Len(col) |-> IF i = 1 THEN NaN ELSE col[i - 1]]

\* Series.ewm(span=span, adjust=False).mean():
\* y[0] = x[0], y[t] = (1 - a) y[t-1] + a x[t], a = 2 / (span + 1)
Ewm(col, span) ==
    LET a == Frac(2, span + 1)
        RECURSIVE From(_)
        From(acc) ==
            IF Len(acc) = Len(col) THEN acc
            ELSE From(Append(acc, Quantize(RAdd(RMul(RSub(Num(1), a), acc[Len(acc)]),
                                                RMul(a, col[Len(acc) + 1])))))
    IN  IF Len(col) = 0 THEN <<>> ELSE From(<<col[1]>>)

\* the shorter of two lengths
MinLen(a, b) == IF Len(a) < Len(b) THEN Len(a) ELSE Len(b)

\* a - b and abs(a) on columns, entry by entry
SeqSub(a, b) == [i \in 1..MinLen(a, b) |-> RSub(a[i], b[i])]
SeqAbs(a)    == [i \in 1..Len(a) |-> RAbs(a[i])]

\* pd.concat([a, b, c], axis=1).max(axis=1): the largest entry of each row,
\* NaN entries skipped
RowMax3(a, b, c) ==
    LET m2(x, y) == IF IsNaN(x) THEN y ELSE IF IsNaN(y) THEN x ELSE RMax(x, y)
    IN  [i \in 1..MinLen(a, SeqSub(b, c)) |-> m2(m2(a[i], b[i]), c[i])]


\* -------------------------------------------------------- TechnicalAnalyzer
\* A price point is a record [timestamp, open, high, low, close, volume] of
\* integers; df is the DataFrame built from the price history, one row per bar.

MIN_PERIODS == 14

\* the guard one point too lenient
InsufficientData_Lenient(price_history) ==
    Len(price_history) = 0 \/ Len(price_history) < MIN_PERIODS - 1

\* __init__: the guard that raises ValueError
InsufficientData(price_history) ==
    Len(price_history) = 0 \/ Len(price_history) < MIN_PERIODS

\* the frame keeping the order the rows were supplied in
KeepOrder(rows) == rows

\* df.sort_values('timestamp') followed by reset_index(drop=True)
SortByTimestamp(rows) ==
    LET n    == Len(rows)
        rank == [i \in 1..n |-> 1 + Cardinality({j \in 1..n :
                        \/ rows[j].timestamp < rows[i].timestamp
                        \/ rows[j].timestamp = rows[i].timestamp /\ j < i})]
    IN  [k \in 1..n |-> rows[CHOOSE i \in 1..n : rank[i] = k]]

\* __init__ past the guard: the frame the indicators are computed from
BuildFrame(price_history) == SortByTimestamp(price_history)

Close(df)  == [i \in 1..Len(df) |-> Num(df[i].close)]
High(df)   == [i \in 1..Len(df) |-> Num(df[i].high)]
Low(df)    == [i \in 1..Len(df) |-> Num(df[i].low)]
Volume(df) == [i \in 1..Len(df) |-> Num(df[i].volume)]

\* col.iloc[-1]; a frame that exists has at least MIN_PERIODS rows
Last(col) == IF Len(col) > 0 THEN col[Len(col)] ELSE NaN

RSI_PERIOD == 14
RSI_DEFAULT == 50

\* calculate_rsi with the spec's reading of the fallback: the default whenever
\* the average loss is zero
calculate_rsi_ZeroLossDefault(df) ==
    LET delta == Diff(Close(df))
        up    == [i \in 1..Len(delta) |->
                    IF RGt(delta[i], Num(0)) THEN delta[i] ELSE Num(0)]
        down  == [i \in 1..Len(delta) |->
                    RNeg(IF RLt(delta[i], Num(0)) THEN delta[i] ELSE Num(0))]
        gain  == RollingMeanLast(up, RSI_PERIOD)
        loss  == RollingMeanLast(down, RSI_PERIOD)
        rs    == RDiv(gain, loss)
        rsi   == RSub(Num(100), RDiv(Num(100), RAdd(Num(1), rs)))
    IN  IF REq(loss, Num(0)) THEN Num(RSI_DEFAULT) ELSE safe_float(rsi, Num(RSI_DEFAULT))

\* calculate_rsi with the losses left negative (the minus sign dropped)
calculate_rsi_SignedLoss(df) ==
    LET delta == Diff(Close(df))
        up    == [i \in 1..Len(delta) |->
                    IF RGt(delta[i], Num(0)) THEN delta[i] ELSE Num(0)]
        down  == [i \in 1..Len(delta) |->
                    IF RLt(delta[i], Num(0)) THEN delta[i] ELSE Num(0)]
        gain  == RollingMeanLast(up, RSI_PERIOD)
        loss  == RollingMeanLast(down, RSI_PERIOD)
        rs    == RDiv(gain, loss)
        rsi   == RSub(Num(100), RDiv(Num(100), RAdd(Num(1), rs)))
    IN  safe_float(rsi, Num(RSI_DEFAULT))

\* calculate_rsi(period=14)
calculate_rsi(df) ==
    LET delta == Diff(Close(df))
        up    == [i \in 1..Len(delta) |->
                    IF RGt(delta[i], Num(0)) THEN delta[i] ELSE Num(0)]
        down  == [i \in 1..Len(delta) |->
                    RNeg(IF RLt(delta[i], Num(0)) THEN delta[i] ELSE Num(0))]
        gain  == RollingMeanLast(up, RSI_PERIOD)
        loss  == RollingMeanLast(down, RSI_PERIOD)
        rs    == RDiv(gain, loss)
        rsi   == RSub(Num(100), RDiv(Num(100), RAdd(Num(1), rs)))
    IN  safe_float(rsi, Num(RSI_DEFAULT))

MACD_FAST == 12
MACD_SLOW == 26
MACD_SIGNAL == 9

\* calculate_macd(fast=12, slow=26, signal=9)
\* the last entries of the three lines, before rounding
MacdLocals(df) ==
    LET exp1        == Ewm(Close(df), MACD_FAST)
        exp2        == Ewm(Close(df), MACD_SLOW)
        macd_line   == SeqSub(exp1, exp2)
        signal_line == Ewm(macd_line, MACD_SIGNAL)
        histogram   == SeqSub(macd_line, signal_line)
    IN  [macd_val   |-> safe_float(Last(macd_line), Num(0)),
         signal_val |-> safe_float(Last(signal_line), Num(0)),
         hist_val   |-> safe_float(Last(histogram), Num(0))]

\* the dict returned: three fields rounded one by one, the label from hist_val
MacdRecord(l) ==
    [macd      |-> Round(l.macd_val, 6),
     signal    |-> Round(l.signal_val, 6),
     histogram |-> Round(l.hist_val, 6),
     trend     |-> IF RGt(l.hist_val, Num(0)) THEN "bullish" ELSE "bearish"]

calculate_macd(df) == MacdRecord(MacdLocals(df))

\* _bb_position with the oversold test ahead of the overbought test
bb_position_OversoldFirst(price, upper, lower) ==
    IF RLe(price, lower) THEN "oversold"
    ELSE IF RGe(price, upper) THEN "overbought"
    ELSE "neutral"

\* _bb_position(price, upper, lower)
bb_position(price, upper, lower) ==
    IF RGe(price, upper) THEN "overbought"
    ELSE IF RLe(price, lower) THEN "oversold"
    ELSE "neutral"

BB_PERIOD == 20
BB_STD_DEV == 2

\* calculate_bollinger_bands with the two bands exchanged
calculate_bollinger_bands_Swapped(df) ==
    LET sma   == RollingMeanLast(Close(df), BB_PERIOD)
        std   == RollingStdLast(Close(df), BB_PERIOD)
        upper == RSub(sma, RMul(std, Num(BB_STD_DEV)))
        lower == RAdd(sma, RMul(std, Num(BB_STD_DEV)))
        current_price == safe_float(Last(Close(df)), Num(0))
        upper_val  == safe_float(upper, RMul(current_price, Frac(102, 100)))
        middle_val == safe_float(sma, current_price)
        lower_val  == safe_float(lower, RMul(current_price, Frac(98, 100)))
    IN  [upper    |-> Round(upper_val, 6),
         middle   |-> Round(middle_val, 6),
         lower    |-> Round(lower_val, 6),
         position |-> bb_position(current_price, upper_val, lower_val)]

\* calculate_bollinger_bands(period=20, std_dev=2)
calculate_bollinger_bands(df) ==
    LET sma   == RollingMeanLast(Close(df), BB_PERIOD)
        std   == RollingStdLast(Close(df), BB_PERIOD)
        upper == RAdd(sma, RMul(std, Num(BB_STD_DEV)))
        lower == RSub(sma, RMul(std, Num(BB_STD_DEV)))
        current_price == safe_float(Last(Close(df)), Num(0))
        upper_val  == safe_float(upper, RMul(current_price, Frac(102, 100)))
        middle_val == safe_float(sma, current_price)
        lower_val  == safe_float(lower, RMul(current_price, Frac(98, 100)))
    IN  [upper    |-> Round(upper_val, 6),
         middle   |-> Round(middle_val, 6),
         lower    |-> Round(lower_val, 6),
         position |-> bb_position(current_price, upper_val, lower_val)]

ATR_PERIOD == 14

\* calculate_atr(period=14); the fallback is 0.0001
calculate_atr(df) ==
    LET high  == High(df)
        low   == Low(df)
        close == Shift1(Close(df))
        tr1   == SeqSub(high, low)
        tr2   == SeqAbs(SeqSub(high, close))
        tr3   == SeqAbs(SeqSub(low, close))
        tr    == RowMax3(tr1, tr2, tr3)
        atr   == RollingMeanLast(tr, ATR_PERIOD)
    IN  safe_float(atr, Frac(1, 10000))

SR_LOOKBACK == 50

\* max(values, default=...) and min(values, default=...) over a list of floats
MaxOr(values, default) ==
    IF values = {} THEN default
    ELSE CHOOSE v \in values : \A w \in values : RLe(w, v)
MinOr(values, default) ==
    IF values = {} THEN default
    ELSE CHOOSE v \in values : \A w \in values : RLe(v, w)

\* find_support_resistance(lookback=50)
\* the local minima and maxima of the lookback window and the current close
LevelLocals(df) ==
    LET lookback == IF Len(df) < SR_LOOKBACK THEN Len(df) ELSE SR_LOOKBACK
        recent   == Tail_(df, lookback)
        lows     == Low(recent)
        highs    == High(recent)
    IN  [support_levels |->
            {lows[i] : i \in {k \in 2..(Len(lows) - 1) :
                RLt(lows[k], lows[k - 1]) /\ RLt(lows[k], lows[k + 1])}},
         resistance_levels |->
            {highs[i] : i \in {k \in 2..(Len(highs) - 1) :
                RGt(highs[k], highs[k - 1]) /\ RGt(highs[k], highs[k + 1])}},
         current_price |-> safe_float(Last(Close(df)), Num(0))]

\* the nearest level on each side of the price, rounded into the dict returned
NearestLevels(l) ==
    LET current_price == l.current_price
        support    == MaxOr({x \in l.support_levels : RLt(x, current_price)},
                            RMul(current_price, Frac(97, 100)))
        resistance == MinOr({x \in l.resistance_levels : RGt(x, current_price)},
                            RMul(current_price, Frac(103, 100)))
    IN  [support    |-> Round(safe_float(support, RMul(current_price, Frac(97, 100))), 6),
         resistance |-> Round(safe_float(resistance, RMul(current_price, Frac(103, 100))), 6)]

find_support_resistance(df) == NearestLevels(LevelLocals(df))

\* calculate_ema(period)
calculate_ema(df, period) ==
    LET ema      == Ewm(Close(df), period)
        fallback == safe_float(Last(Close(df)), Num(0))
    IN  safe_float(Last(ema), fallback)

TREND_MIN_LEN == 50
EMA_SHORT == 20
EMA_LONG == 50

\* the guard refusing a frame of exactly 50 rows as well
TrendUndecidable_Inclusive(df) == Len(df) <= TREND_MIN_LEN

\* the guard of get_trend: too few rows to classify
TrendUndecidable(df) == Len(df) < TREND_MIN_LEN

\* get_trend: the three values the classification reads
TrendLocals(df) ==
    [current_price |-> safe_float(Last(Close(df)), Num(0)),
     ema_20        |-> calculate_ema(df, EMA_SHORT),
     ema_50        |-> calculate_ema(df, EMA_LONG)]

\* the chain with the two downtrend tests ahead of the two uptrend tests
ClassifyTrend_DownFirst(l) ==
    IF RLt(l.current_price, l.ema_20) /\ RLt(l.ema_20, l.ema_50) THEN "strong_downtrend"
    ELSE IF RLt(l.current_price, l.ema_20) \/ RLt(l.ema_20, l.ema_50) THEN "downtrend"
    ELSE IF RGt(l.current_price, l.ema_20) /\ RGt(l.ema_20, l.ema_50) THEN "strong_uptrend"
    ELSE IF RGt(l.current_price, l.ema_20) \/ RGt(l.ema_20, l.ema_50) THEN "uptrend"
    ELSE "sideways"

\* get_trend: the if/elif chain
ClassifyTrend(l) ==
    IF RGt(l.current_price, l.ema_20) /\ RGt(l.ema_20, l.ema_50) THEN "strong_uptrend"
    ELSE IF RGt(l.current_price, l.ema_20) \/ RGt(l.ema_20, l.ema_50) THEN "uptrend"
    ELSE IF RLt(l.current_price, l.ema_20) /\ RLt(l.ema_20, l.ema_50) THEN "strong_downtrend"
    ELSE IF RLt(l.current_price, l.ema_20) \/ RLt(l.ema_20, l.ema_50) THEN "downtrend"
    ELSE "sideways"

\* get_trend()
get_trend(df) ==
    IF TrendUndecidable(df) THEN "insufficient_data"
    ELSE ClassifyTrend(TrendLocals(df))

VOLUME_WINDOW == 20

\* calculate_volume_analysis()
calculate_volume_analysis(df) ==
    LET avg_volume     == safe_float(Mean(Tail_(Volume(df), VOLUME_WINDOW)), Num(1))
        current_volume == safe_float(Last(Volume(df)), Num(1))
        volume_ratio   == safe_float(IF RGt(avg_volume, Num(0))
                                     THEN RDiv(current_volume, avg_volume)
                                     ELSE Num(1),
                                     Num(1))
    IN  [current |-> TruncInt(current_volume),
         average |-> TruncInt(avg_volume),
         ratio   |-> Round(volume_ratio, 2),
         status  |-> IF RGt(volume_ratio, Frac(15, 10)) THEN "high"
                     ELSE IF RGt(volume_ratio, Frac(7, 10)) THEN "normal"
                     ELSE "low"]


\* ---------------------------------------------------------- SignalGenerator
\* technical_data is a record
\*   [rsi, macd : [macd, signal, histogram, trend],
\*    bollinger_bands : [upper, middle, lower, position], atr,
\*    support_resistance : [support, resistance], trend, volume];
\* a numeric entry that is absent (dict.get falls back to its default) is None,
\* an absent label is "none".

\* __init__: self.price
InitPrice(current_price) == safe_float(current_price, Num(0))

\* the lists kept from the previous call, as attributes of the object would be
StaleLocals(prev) == prev

\* generate_signal: the two lists a call starts from (signals = [],
\* confidence_factors = []), whatever an earlier call left behind
FreshLocals(prev) == [signals |-> <<>>, confidence_factors |-> <<>>]

\* signals.append(vote); confidence_factors.append(weight)
Cast(st, vote, weight) ==
    [signals            |-> Append(st.signals, vote),
     confidence_factors |-> Append(st.confidence_factors, weight)]

\* confidence_factors.append(weight) alone
Track(st, weight) ==
    [st EXCEPT !.confidence_factors = Append(st.confidence_factors, weight)]

\* generate_signal: RSI signal
VoteRsi(tech, st) ==
    LET rsi == safe_float(tech.rsi, Num(50))
    IN  IF RLt(rsi, Num(30)) THEN Cast(st, "LONG", 25)
        ELSE IF RGt(rsi, Num(70)) THEN Cast(st, "SHORT", 25)
        ELSE IF RLt(Num(40), rsi) /\ RLt(rsi, Num(60)) THEN Track(st, 10)
        ELSE st

\* the MACD vote following the trend label alone, whatever the histogram is
VoteMacd_LabelOnly(tech, st) ==
    IF tech.macd.trend = "bullish" THEN Cast(st, "LONG", 20)
    ELSE IF tech.macd.trend = "bearish" THEN Cast(st, "SHORT", 20)
    ELSE st

\* generate_signal: MACD signal
VoteMacd(tech, st) ==
    LET macd == tech.macd
    IN  IF macd.trend = "bullish" /\ RGt(safe_float(macd.histogram, Num(0)), Num(0))
        THEN Cast(st, "LONG", 20)
        ELSE IF macd.trend = "bearish" /\ RLt(safe_float(macd.histogram, Num(0)), Num(0))
        THEN Cast(st, "SHORT", 20)
        ELSE st

\* generate_signal: Bollinger Bands
VoteBollinger(tech, st) ==
    LET bb == tech.bollinger_bands
    IN  IF bb.position = "oversold" THEN Cast(st, "LONG", 15)
        ELSE IF bb.position = "overbought" THEN Cast(st, "SHORT", 15)
        ELSE st

\* generate_signal: Support/Resistance
VoteSupportResistance(tech, price, st) ==
    LET sr         == tech.support_resistance
        support    == safe_float(sr.support, RMul(price, Frac(97, 100)))
        resistance == safe_float(sr.resistance, RMul(price, Frac(103, 100)))
    IN  IF RLe(price, RMul(support, Frac(101, 100))) THEN Cast(st, "LONG", 20)
        ELSE IF RGe(price, RMul(resistance, Frac(99, 100))) THEN Cast(st, "SHORT", 20)
        ELSE st

\* generate_signal: Trend alignment
VoteTrend(tech, st) ==
    IF tech.trend \in {"strong_uptrend", "uptrend"} THEN Cast(st, "LONG", 20)
    ELSE IF tech.trend \in {"strong_downtrend", "downtrend"} THEN Cast(st, "SHORT", 20)
    ELSE st

\* signals.count(vote)
Count(signals, vote) == Cardinality({i \in 1..Len(signals) : signals[i] = vote})

\* sum(confidence_factors[:k])
SumPrefix(confidence_factors, k) ==
    LET RECURSIVE SumTo(_)
        SumTo(i) == IF i = 0 THEN 0 ELSE SumTo(i - 1) + confidence_factors[i]
    IN  SumTo(IF k < Len(confidence_factors) THEN k ELSE Len(confidence_factors))

MAX_CONFIDENCE == 95
NEUTRAL_CONFIDENCE == 40

\* the decision taken by the summed weight of each side instead of the count
Decide_ByWeight(st) ==
    LET weight(vote) ==
            LET RECURSIVE SumTo(_)
                SumTo(k) == IF k = 0 THEN 0
                            ELSE SumTo(k - 1)
                                 + (IF st.signals[k] = vote
                                    THEN st.confidence_factors[k] ELSE 0)
            IN  SumTo(Len(st.signals))
        long_count  == Count(st.signals, "LONG")
        short_count == Count(st.signals, "SHORT")
        cap(x)      == IF x < MAX_CONFIDENCE THEN x ELSE MAX_CONFIDENCE
    IN  IF weight("LONG") > weight("SHORT")
        THEN [direction  |-> "LONG",
              confidence |-> cap(SumPrefix(st.confidence_factors, long_count))]
        ELSE IF weight("SHORT") > weight("LONG")
        THEN [direction  |-> "SHORT",
              confidence |-> cap(SumPrefix(st.confidence_factors, short_count))]
        ELSE [direction |-> "NEUTRAL", confidence |-> NEUTRAL_CONFIDENCE]

\* the decision without the cap on the confidence
Decide_Uncapped(st) ==
    LET long_count  == Count(st.signals, "LONG")
        short_count == Count(st.signals, "SHORT")
    IN  IF long_count > short_count
        THEN [direction  |-> "LONG",
              confidence |-> SumPrefix(st.confidence_factors, long_count)]
        ELSE IF short_count > long_count
        THEN [direction  |-> "SHORT",
              confidence |-> SumPrefix(st.confidence_factors, short_count)]
        ELSE [direction |-> "NEUTRAL", confidence |-> NEUTRAL_CONFIDENCE]

\* generate_signal: Determine final signal
Decide(st) ==
    LET long_count  == Count(st.signals, "LONG")
        short_count == Count(st.signals, "SHORT")
        cap(x)      == IF x < MAX_CONFIDENCE THEN x ELSE MAX_CONFIDENCE
    IN  IF long_count > short_count
        THEN [direction  |-> "LONG",
              confidence |-> cap(SumPrefix(st.confidence_factors, long_count))]
        ELSE IF short_count > long_count
        THEN [direction  |-> "SHORT",
              confidence |-> cap(SumPrefix(st.confidence_factors, short_count))]
        ELSE [direction |-> "NEUTRAL", confidence |-> NEUTRAL_CONFIDENCE]

\* calculate_position_size(account_risk=5)
calculate_position_size(tech) ==
    LET atr         == safe_float(tech.atr, Frac(1, 10000))
        sl_distance == RMul(atr, Frac(15, 10))
        tp_distance == RMul(sl_distance, Frac(25, 10))
    IN  [sl_distance |-> Round(safe_float(sl_distance, Frac(1, 10000)), 6),
         tp_distance |-> Round(safe_float(tp_distance, Frac(1, 10000)), 6),
         risk_amount |-> 5]

\* what the caller gets when generate_signal raises
Raised(exception) == [raised |-> exception]

\* the returned dict with the ratio taken without the test on sl_dist: Python
\* raises ZeroDivisionError on a float division by zero
BuildSignal_UnguardedRatio(tech, price, decision) ==
    LET position == calculate_position_size(tech)
        entry    == price
        sl       == IF decision.direction = "SHORT"
                    THEN RAdd(entry, position.sl_distance)
                    ELSE RSub(entry, position.sl_distance)
        tp       == IF decision.direction = "SHORT"
                    THEN RSub(entry, position.tp_distance)
                    ELSE RAdd(entry, position.tp_distance)
        sl_dist  == safe_float(position.sl_distance, Frac(1, 10000))
        tp_dist  == safe_float(position.tp_distance, Frac(1, 10000))
    IN  IF REq(sl_dist, Num(0)) THEN Raised("ZeroDivisionError")
        ELSE [direction   |-> decision.direction,
              confidence  |-> Round(safe_float(Num(decision.confidence), Num(0)), 1),
              entry       |-> Round(safe_float(entry, Num(0)), 6),
              tp          |-> Round(safe_float(tp, Num(0)), 6),
              sl          |-> Round(safe_float(sl, Num(0)), 6),
              risk_reward |-> Round(safe_float(RDiv(tp_dist, sl_dist), Frac(25, 10)), 2),
              atr         |-> safe_float(tech.atr, Frac(1, 10000))]

\* generate_signal: Calculate entry, TP, SL and build the returned dict
BuildSignal(tech, price, decision) ==
    LET position == calculate_position_size(tech)
        entry    == price
        sl       == IF decision.direction = "LONG"
                    THEN RSub(entry, position.sl_distance)
                    ELSE IF decision.direction = "SHORT"
                    THEN RAdd(entry, position.sl_distance)
                    ELSE RSub(entry, position.sl_distance)
        tp       == IF decision.direction = "LONG"
                    THEN RAdd(entry, position.tp_distance)
                    ELSE IF decision.direction = "SHORT"
                    THEN RSub(entry, position.tp_distance)
                    ELSE RAdd(entry, position.tp_distance)
        sl_dist  == safe_float(position.sl_distance, Frac(1, 10000))
        tp_dist  == safe_float(position.tp_distance, Frac(1, 10000))
        risk_reward == IF RGt(sl_dist, Num(0)) THEN RDiv(tp_dist, sl_dist)
                       ELSE Frac(25, 10)
    IN  [direction   |-> decision.direction,
         confidence  |-> Round(safe_float(Num(decision.confidence), Num(0)), 1),
         entry       |-> Round(safe_float(entry, Num(0)), 6),
         tp          |-> Round(safe_float(tp, Num(0)), 6),
         sl          |-> Round(safe_float(sl, Num(0)), 6),
         risk_reward |-> Round(safe_float(risk_reward, Frac(25, 10)), 2),
         atr         |-> safe_float(tech.atr, Frac(1, 10000))]

\* the five evidence sources in the order generate_signal evaluates them
AllVotes(tech, price, st) ==
    VoteTrend(tech,
        VoteSupportResistance(tech, price,
            VoteBollinger(tech, VoteMacd(tech, VoteRsi(tech, st)))))

\* generate_signal(), one call from start to return; prev is what the lists
\* held before the call
generate_signal(tech, price, prev) ==
    BuildSignal(tech, price, Decide(AllVotes(tech, price, FreshLocals(prev))))


\* ------------------------------------------------------------------- state

VARIABLES
    price_history,  \* the series handed to TechnicalAnalyzer(...)
    df,             \* TechnicalAnalyzer.df, <<>> while there is no analyzer
    error,          \* "none", or the exception the constructor raised
    tech,           \* technical_data as the caller assembled it, or NoTech
    phase,          \* the caller's position: start, failed, constructed, analyzed, done
    self_tech,      \* SignalGenerator.tech of each generator
    self_price,     \* SignalGenerator.price of each generator
    locals,         \* [signals, confidence_factors] of each generator's current call
    pc,             \* each generator's position inside generate_signal
    result,         \* the Signal each generator returned last, or NoSignal
    handler,        \* the endpoint whose _analyze_pair is running, or "none"
    price_data,     \* the current price the fetcher returned, None when it failed
    fetched,        \* the history the external fetch returned
    stored,         \* the symbol's candles in the price_history collection
    pairs_analysis, \* the symbol's document in the pairs_analysis collection
    now,            \* datetime.utcnow() of the request
    trend_locals,   \* get_trend: current_price, ema_20 and ema_50
    trend,          \* get_trend: the label returned, "none" before the call
    level_locals,   \* find_support_resistance: the two level lists and current_price
    levels,         \* find_support_resistance: the dict returned, or NoLevels
    macd_locals,    \* calculate_macd: macd_val, signal_val and hist_val
    macd,           \* calculate_macd: the dict returned, or NoMacd
    request,        \* the HTTP request a handler serves, or NoRequest
    at,             \* the handler's position in its code
    conn,           \* the connection get_db gave the handler: none, open, closed
    reply,          \* the response sent: status code and kind of body, or NoReply
    effects,        \* what the handler has done to the outside so far
    pair_result,    \* analyze-pair: the dict _analyze_pair returned, or NoResult
    results,        \* update-all: the results dict
    cursor,         \* update-all: index of the pair the running loop is at
    news,           \* the documents of the news collection, in insertion order
    calls,          \* the save call each concurrent request is making
    save_pc,        \* each request's position in its save call
    existing        \* each request's find_one result

vars == <<price_history, df, error, tech, phase,
          self_tech, self_price, locals, pc, result,
          handler, price_data, fetched, stored, pairs_analysis, now,
          trend_locals, trend,
          level_locals, levels, macd_locals, macd,
          request, at, conn, reply, effects, pair_result, results, cursor,
          news, calls, save_pc, existing>>

engine_vars == <<price_history, df, error, tech, phase>>
fuser_vars  == <<self_tech, self_price, locals, pc, result>>
orch_vars   == <<handler, price_data, fetched, stored, pairs_analysis, now>>
trend_vars  == <<trend_locals, trend>>
level_vars  == <<level_locals, levels>>
macd_vars   == <<macd_locals, macd>>
serve_vars  == <<request, at, conn, reply, effects, pair_result, results, cursor>>
dedupe_vars == <<news, calls, save_pc, existing>>

\* the variables that the pipeline, the generators and the orchestrator leave alone
rest_vars   == <<level_vars, macd_vars, serve_vars, dedupe_vars>>

NoTech   == [absent |-> TRUE]
NoSignal == [absent |-> TRUE]

\* the SignalGenerator objects that can be alive at once
Instances == {"g1", "g2"}

EmptyLocals == [signals |-> <<>>, confidence_factors |-> <<>>]

\* no document stored for the symbol
NoDoc == [absent |-> TRUE]

\* the price fetch returned nothing
NoPriceData == [absent |-> TRUE]

\* no request is being served
InitIdleOrch ==
    /\ handler = "none"
    /\ price_data = NoPriceData
    /\ fetched = <<>>
    /\ stored = <<>>
    /\ pairs_analysis = NoDoc
    /\ now = 0

\* get_trend has not been entered
InitIdleTrend ==
    /\ trend_locals = [current_price |-> Num(0), ema_20 |-> Num(0), ema_50 |-> Num(0)]
    /\ trend = "none"

NoLevels == [absent |-> TRUE]
NoMacd   == [absent |-> TRUE]

\* find_support_resistance has not been entered
InitIdleLevels ==
    /\ level_locals = [support_levels |-> {}, resistance_levels |-> {},
                       current_price |-> Num(0)]
    /\ levels = NoLevels

\* calculate_macd has not been entered
InitIdleMacd ==
    /\ macd_locals = [macd_val |-> Num(0), signal_val |-> Num(0), hist_val |-> Num(0)]
    /\ macd = NoMacd

NoRequest == [absent |-> TRUE]
NoReply   == [absent |-> TRUE]
NoResult  == [absent |-> TRUE]
NoResults == [absent |-> TRUE]
NoCall    == [absent |-> TRUE]

\* the requests whose save calls can overlap
Requests == {"r1", "r2"}

\* no handler is serving a request
InitIdleServe ==
    /\ request = NoRequest
    /\ at = "idle"
    /\ conn = "none"
    /\ reply = NoReply
    /\ effects = {}
    /\ pair_result = NoResult
    /\ results = NoResults
    /\ cursor = 0

\* no save call is under way
InitIdleDedupe ==
    /\ news = <<>>
    /\ calls = [r \in Requests |-> NoCall]
    /\ save_pc = [r \in Requests |-> "idle"]
    /\ existing = [r \in Requests |-> NoDoc]

InitIdleRest ==
    /\ InitIdleLevels
    /\ InitIdleMacd
    /\ InitIdleServe
    /\ InitIdleDedupe

\* ------------------------------------------------------------------ inputs

\* the longest series supplied
MaxLen == 52
\* the price level the series move around
Base == 100

Bar(t, c, wick, v) ==
    [timestamp |-> t, open |-> c, high |-> c + wick, low |-> c - wick,
     close |-> c, volume |-> v]

Shapes == {"flat", "up", "down", "zigzag"}

ShapeClose(shape, i) ==
    CASE shape = "flat"   -> Base
      [] shape = "up"     -> Base + i - 1
      [] shape = "down"   -> Base + MaxLen - i
      [] shape = "zigzag" -> Base + 2 * (i % 2)

ShapeWick(shape)   == IF shape \in {"down", "zigzag"} THEN 1 ELSE 0
ShapeVolume(shape) == IF shape = "flat" THEN 0 ELSE 1000

\* the last bars of a series move freely: a change of the close and a volume
TailMoves == {[dc |-> 3, vol |-> 3000], [dc |-> -3, vol |-> 0], [dc |-> 0, vol |-> 1000]}
Tails == {<<>>} \cup {<<a>> : a \in TailMoves} \cup {<<a, b>> : a, b \in TailMoves}

\* a series of n bars in ascending time order: a shaped run, then the tail
AscSeries(n, shape, tail) ==
    LET k == n - Len(tail)
        RECURSIVE TailClose(_)
        TailClose(j) ==
            (IF j = 1 THEN (IF k = 0 THEN Base ELSE ShapeClose(shape, k))
             ELSE TailClose(j - 1)) + tail[j].dc
    IN  [i \in 1..n |->
            IF i <= k THEN Bar(i, ShapeClose(shape, i), ShapeWick(shape), ShapeVolume(shape))
            ELSE Bar(i, TailClose(i - k), ShapeWick(shape), tail[i - k].vol)]

Reverse(s) == [i \in 1..Len(s) |-> s[Len(s) + 1 - i]]

\* the oldest bar moved behind the newest one
Rotate(s) == [i \in 1..Len(s) |-> s[(i % Len(s)) + 1]]

\* the series a caller can supply: any length up to MaxLen, oldest first, and
\* the shaped runs newest first and with the oldest bar last as well
InputSeries ==
    LET asc == UNION {{AscSeries(n, shape, tail) : tail \in {t \in Tails : Len(t) <= n}} :
                        n \in 0..MaxLen, shape \in Shapes}
    IN  asc \cup {Reverse(AscSeries(n, shape, <<>>)) : n \in 0..MaxLen, shape \in Shapes}
            \cup {Rotate(AscSeries(n, shape, <<>>)) : n \in 0..MaxLen, shape \in Shapes}

\* the current prices price_data['price'] can carry next to a series
PipelinePrices == {Num(Base), Num(Base + 20)}

\* ------------------------------------------------ the analysis of one pair
\* TechnicalAnalyzer(history), the seven indicator calls, then
\* SignalGenerator(technical_data, price).generate_signal(), as _analyze_pair
\* runs them.

InitIdleFuser ==
    /\ self_tech  = [i \in Instances |-> NoTech]
    /\ self_price = [i \in Instances |-> Num(0)]
    /\ locals     = [i \in Instances |-> EmptyLocals]
    /\ pc         = [i \in Instances |-> "idle"]
    /\ result     = [i \in Instances |-> NoSignal]

Init ==
    /\ price_history \in InputSeries
    /\ df = <<>>
    /\ error = "none"
    /\ tech = NoTech
    /\ phase = "start"
    /\ InitIdleFuser
    /\ InitIdleOrch
    /\ InitIdleTrend
    /\ InitIdleRest

\* TechnicalAnalyzer.__init__ raising ValueError
ConstructFails ==
    /\ phase = "start"
    /\ InsufficientData(price_history)
    /\ error' = "ValueError"
    /\ phase' = "failed"
    /\ UNCHANGED <<price_history, df, tech, fuser_vars>>
    /\ UNCHANGED <<orch_vars, trend_vars, rest_vars>>

\* the constructor sorting the caller's list itself (list.sort) before the
\* frame is built from it
Construct_SortsCallerList ==
    /\ phase = "start"
    /\ ~InsufficientData(price_history)
    /\ price_history' = SortByTimestamp(price_history)
    /\ df' = BuildFrame(price_history)
    /\ phase' = "constructed"
    /\ UNCHANGED <<error, tech, fuser_vars>>
    /\ UNCHANGED <<orch_vars, trend_vars, rest_vars>>

\* TechnicalAnalyzer.__init__ returning an analyzer
Construct ==
    /\ phase = "start"
    /\ ~InsufficientData(price_history)
    /\ df' = BuildFrame(price_history)
    /\ phase' = "constructed"
    /\ UNCHANGED <<price_history, error, tech, fuser_vars>>
    /\ UNCHANGED <<orch_vars, trend_vars, rest_vars>>

\* the seven indicator calls and the technical_data dict built from them
ComputeIndicators ==
    /\ phase = "constructed"
    /\ tech' = [rsi                |-> calculate_rsi(df),
                macd               |-> calculate_macd(df),
                bollinger_bands    |-> calculate_bollinger_bands(df),
                atr                |-> calculate_atr(df),
                support_resistance |-> find_support_resistance(df),
                trend              |-> get_trend(df),
                volume             |-> calculate_volume_analysis(df)]
    /\ phase' = "analyzed"
    /\ UNCHANGED <<price_history, df, error, fuser_vars>>
    /\ UNCHANGED <<orch_vars, trend_vars, rest_vars>>

\* SignalGenerator(technical_data, price_data['price']).generate_signal()
Fuse ==
    /\ phase = "analyzed"
    /\ \E current_price \in PipelinePrices :
        LET price == InitPrice(current_price)
            st    == AllVotes(tech, price, FreshLocals(locals["g1"]))
        IN  /\ self_tech'  = [self_tech EXCEPT !["g1"] = tech]
            /\ self_price' = [self_price EXCEPT !["g1"] = price]
            /\ locals'     = [locals EXCEPT !["g1"] = st]
            /\ result'     = [result EXCEPT !["g1"] =
                                generate_signal(tech, price, locals["g1"])]
            /\ pc'         = [pc EXCEPT !["g1"] = "done"]
    /\ phase' = "done"
    /\ UNCHANGED <<price_history, df, error, tech>>
    /\ UNCHANGED <<orch_vars, trend_vars, rest_vars>>

Next == ConstructFails \/ Construct \/ ComputeIndicators \/ Fuse

Spec == Init /\ [][Next]_vars


\* --------------------------------------- the fuser on arbitrary indicators
\* SignalGenerator accepts any technical_data dict and any price, not only
\* what the analyzer produces.

RsiInputs == {Num(25), Num(30), Num(35), Num(50), Num(75)}

MacdInputs ==
    {[macd |-> Num(0), signal |-> Num(0), histogram |-> h, trend |-> t] :
        h \in {Frac(1, 2), Num(0), Frac(-1, 2)}, t \in {"bullish", "bearish"}}

BollingerInputs ==
    {[upper |-> Num(Base + 5), middle |-> Num(Base), lower |-> Num(Base - 5),
      position |-> p] : p \in {"overbought", "oversold", "neutral"}}

SupportResistanceInputs ==
    {[support |-> Num(Base - 5), resistance |-> Num(Base + 5)],
     [support |-> Num(Base),     resistance |-> Num(Base + 5)],
     [support |-> Num(Base - 5), resistance |-> Num(Base)],
     [support |-> Num(Base + 10), resistance |-> Num(Base + 20)],
     [support |-> Num(Base - 20), resistance |-> Num(Base - 10)],
     [support |-> None,          resistance |-> None]}

TrendInputs == {"strong_uptrend", "uptrend", "strong_downtrend", "downtrend",
                "sideways", "insufficient_data"}

AtrInputs == {Num(2), Num(0), Frac(4, 10000000), Frac(2, 10000000), None}

VolumeInput == [current |-> 1000, average |-> 1000, ratio |-> Num(1), status |-> "normal"]

FuserTechs ==
    [rsi                : RsiInputs,
     macd               : MacdInputs,
     bollinger_bands    : BollingerInputs,
     atr                : AtrInputs,
     support_resistance : SupportResistanceInputs,
     trend              : TrendInputs,
     volume             : {VolumeInput}]

\* current_price as the caller passes it: a price, zero, a negative number,
\* a missing value, a NaN
FuserPrices == {Num(Base), Num(0), Num(-1), None, NaN}

InitIdleEngine ==
    /\ price_history = <<>>
    /\ df = <<>>
    /\ error = "none"
    /\ tech = NoTech
    /\ phase = "idle"

\* SignalGenerator(technical_data, current_price) has run for g1
FuserInit ==
    /\ InitIdleEngine
    /\ \E t \in FuserTechs, p \in FuserPrices :
        /\ self_tech  = [i \in Instances |-> IF i = "g1" THEN t ELSE NoTech]
        /\ self_price = [i \in Instances |-> IF i = "g1" THEN InitPrice(p) ELSE Num(0)]
    /\ locals = [i \in Instances |-> EmptyLocals]
    /\ pc     = [i \in Instances |-> IF i = "g1" THEN "ready" ELSE "idle"]
    /\ result = [i \in Instances |-> NoSignal]
    /\ InitIdleOrch
    /\ InitIdleTrend
    /\ InitIdleRest

\* one whole call of generate_signal() on generator i
GenerateSignal(i) ==
    /\ pc[i] = "ready"
    /\ locals' = [locals EXCEPT ![i] =
                    AllVotes(self_tech[i], self_price[i], FreshLocals(locals[i]))]
    /\ result' = [result EXCEPT ![i] =
                    generate_signal(self_tech[i], self_price[i], locals[i])]
    /\ pc' = [pc EXCEPT ![i] = "done"]
    /\ UNCHANGED <<engine_vars, self_tech, self_price>>
    /\ UNCHANGED <<orch_vars, trend_vars, rest_vars>>

FuserNext == \E i \in Instances : GenerateSignal(i)

FuserSpec == FuserInit /\ [][FuserNext]_vars


\* ------------------------------------------- generators running concurrently
\* Each generator is an object of its own; generate_signal() is followed one
\* evidence source at a time, and the calls of different generators interleave.

ConcTechs ==
    [rsi                : {Num(25), Num(75)},
     macd               : {[macd |-> Num(0), signal |-> Num(0),
                            histogram |-> Frac(1, 2), trend |-> "bullish"]},
     bollinger_bands    : {b \in BollingerInputs : b.position \in {"oversold", "neutral"}},
     atr                : {Num(2)},
     support_resistance : {[support |-> Num(Base - 5), resistance |-> Num(Base + 5)]},
     trend              : {"sideways", "downtrend"},
     volume             : {VolumeInput}]

ConcPrices == {Num(Base)}

ConcInit ==
    /\ InitIdleEngine
    /\ InitIdleFuser
    /\ InitIdleOrch
    /\ InitIdleTrend
    /\ InitIdleRest

\* SignalGenerator(technical_data, current_price): a new object for slot i
NewGenerator(i) ==
    /\ pc[i] \in {"idle", "done"}
    /\ \E t \in ConcTechs, p \in ConcPrices :
        /\ self_tech'  = [self_tech EXCEPT ![i] = t]
        /\ self_price' = [self_price EXCEPT ![i] = InitPrice(p)]
    /\ locals' = [locals EXCEPT ![i] = EmptyLocals]
    /\ result' = [result EXCEPT ![i] = NoSignal]
    /\ pc' = [pc EXCEPT ![i] = "ready"]
    /\ UNCHANGED engine_vars
    /\ UNCHANGED <<orch_vars, trend_vars, rest_vars>>

\* generate_signal() is entered, for the first time or again on the same object
Start(i) ==
    /\ pc[i] \in {"ready", "done"}
    /\ locals' = [locals EXCEPT ![i] = FreshLocals(locals[i])]
    /\ pc' = [pc EXCEPT ![i] = "rsi"]
    /\ UNCHANGED <<engine_vars, self_tech, self_price, result>>
    /\ UNCHANGED <<orch_vars, trend_vars, rest_vars>>

StepRsi(i) ==
    /\ pc[i] = "rsi"
    /\ locals' = [locals EXCEPT ![i] = VoteRsi(self_tech[i], locals[i])]
    /\ pc' = [pc EXCEPT ![i] = "macd"]
    /\ UNCHANGED <<engine_vars, self_tech, self_price, result>>
    /\ UNCHANGED <<orch_vars, trend_vars, rest_vars>>

StepMacd(i) ==
    /\ pc[i] = "macd"
    /\ locals' = [locals EXCEPT ![i] = VoteMacd(self_tech[i], locals[i])]
    /\ pc' = [pc EXCEPT ![i] = "bollinger"]
    /\ UNCHANGED <<engine_vars, self_tech, self_price, result>>
    /\ UNCHANGED <<orch_vars, trend_vars, rest_vars>>

StepBollinger(i) ==
    /\ pc[i] = "bollinger"
    /\ locals' = [locals EXCEPT ![i] = VoteBollinger(self_tech[i], locals[i])]
    /\ pc' = [pc EXCEPT ![i] = "support_resistance"]
    /\ UNCHANGED <<engine_vars, self_tech, self_price, result>>
    /\ UNCHANGED <<orch_vars, trend_vars, rest_vars>>

StepSupportResistance(i) ==
    /\ pc[i] = "support_resistance"
    /\ locals' = [locals EXCEPT ![i] =
                    VoteSupportResistance(self_tech[i], self_price[i], locals[i])]
    /\ pc' = [pc EXCEPT ![i] = "trend"]
    /\ UNCHANGED <<engine_vars, self_tech, self_price, result>>
    /\ UNCHANGED <<orch_vars, trend_vars, rest_vars>>

StepTrend(i) ==
    /\ pc[i] = "trend"
    /\ locals' = [locals EXCEPT ![i] = VoteTrend(self_tech[i], locals[i])]
    /\ pc' = [pc EXCEPT ![i] = "decide"]
    /\ UNCHANGED <<engine_vars, self_tech, self_price, result>>
    /\ UNCHANGED <<orch_vars, trend_vars, rest_vars>>

\* the decision, the price levels and the return
Return(i) ==
    /\ pc[i] = "decide"
    /\ result' = [result EXCEPT ![i] =
                    BuildSignal(self_tech[i], self_price[i], Decide(locals[i]))]
    /\ pc' = [pc EXCEPT ![i] = "done"]
    /\ UNCHANGED <<engine_vars, self_tech, self_price, locals>>
    /\ UNCHANGED <<orch_vars, trend_vars, rest_vars>>

ConcNext ==
    \E i \in Instances :
        \/ NewGenerator(i)
        \/ Start(i)
        \/ StepRsi(i)
        \/ StepMacd(i)
        \/ StepBollinger(i)
        \/ StepSupportResistance(i)
        \/ StepTrend(i)
        \/ Return(i)

ConcSpec == ConcInit /\ [][ConcNext]_vars


\* ------------------------------------------------- _analyze_pair per symbol
\* analyze-pair and update-all each carry an _analyze_pair: fetch the price and
\* the history, fall back to the stored candles, then either store the basic
\* result or run the analyzer and the generator and store the full analysis.

HISTORY_MIN == 14
HISTORY_HOURS == 168

Handlers == {"analyze-pair", "update-all"}

\* 'technical': None
TechnicalNone == [none |-> TRUE]

\* the test guarding the stored-history fallback and the basic result, refusing
\* one point fewer than the analyzer does
HistoryTooShort_Lenient(history) == Len(history) = 0 \/ Len(history) < HISTORY_MIN - 1

\* not history or len(history) < 14
HistoryTooShort(history) == Len(history) = 0 \/ Len(history) < HISTORY_MIN

\* db.get_price_history(symbol, hours=168)
get_price_history(rows, utcnow) ==
    LET cutoff_time == utcnow - HISTORY_HOURS
        InWindow(row) == row.timestamp >= cutoff_time
    IN  SortByTimestamp(SelectSeq(rows, InWindow))

\* db.save_price_history(symbol, current_candle)
save_price_history(rows, candle) ==
    IF \E k \in 1..Len(rows) : rows[k].timestamp = candle.timestamp
    THEN rows ELSE Append(rows, candle)

\* current_candle
CurrentCandle(pd, utcnow) ==
    [timestamp |-> utcnow, open |-> pd.price, high |-> pd.price, low |-> pd.price,
     close |-> pd.price, volume |-> pd.volume]

\* the history _analyze_pair goes on with: the fetched one, or the stored one
\* when the fetched one is too short
ChosenHistory(ext, rows, utcnow) ==
    IF HistoryTooShort(ext) THEN get_price_history(rows, utcnow) ELSE ext

\* update-all: clean_nan_from_dict on one float
clean_nan(x) == IF IsNaN(x) \/ IsInf(x) THEN Num(0) ELSE x

\* basic_result as it is handed to save_pair_analysis
BasicResult(h, pd, utcnow) ==
    LET price == Num(pd.price)
        raw == [direction   |-> "INSUFFICIENT_DATA",
                confidence  |-> Num(0),
                entry       |-> price,
                tp          |-> RMul(price, Frac(102, 100)),
                sl          |-> RMul(price, Frac(98, 100)),
                risk_reward |-> Num(2)]
        signal == IF h = "update-all"
                  THEN [raw EXCEPT !.confidence = clean_nan(@), !.entry = clean_nan(@),
                                   !.tp = clean_nan(@), !.sl = clean_nan(@),
                                   !.risk_reward = clean_nan(@)]
                  ELSE raw
    IN  [price     |-> IF h = "update-all" THEN clean_nan(price) ELSE price,
         technical |-> TechnicalNone,
         signal    |-> signal,
         timestamp |-> utcnow]

\* full_analysis as it is handed to save_pair_analysis; every float of
\* technical_data and of the signal went through safe_float, so
\* clean_nan_from_dict finds nothing to replace there
FullAnalysis(h, pd, technical_data, signal, utcnow) ==
    [price     |-> IF h = "update-all" THEN clean_nan(Num(pd.price)) ELSE Num(pd.price),
     technical |-> technical_data,
     signal    |-> signal,
     timestamp |-> utcnow]

\* the technical_data dict built from the seven indicator calls
TechnicalData(frame) ==
    [rsi                |-> calculate_rsi(frame),
     macd               |-> calculate_macd(frame),
     bollinger_bands    |-> calculate_bollinger_bands(frame),
     atr                |-> calculate_atr(frame),
     support_resistance |-> find_support_resistance(frame),
     trend              |-> get_trend(frame),
     volume             |-> calculate_volume_analysis(frame)]

\* the lengths of the histories a request meets
OrchLengths == {0, 5, 13, 14, 20}

OrchHistories ==
    {AscSeries(n, shape, <<>>) : n \in OrchLengths, shape \in {"up", "zigzag"}}

PriceDatas ==
    {[price |-> Base, volume |-> 1000], [price |-> Base + 20, volume |-> 0], NoPriceData}

\* the request times: right after the newest bar, and a week and more after
\* the oldest ones
RequestTimes == {MaxLen + 1, HISTORY_HOURS + 8}

OrchInit ==
    /\ price_history = <<>>
    /\ df = <<>>
    /\ error = "none"
    /\ tech = NoTech
    /\ phase = "request"
    /\ InitIdleFuser
    /\ InitIdleTrend
    /\ InitIdleRest
    /\ handler \in Handlers
    /\ price_data \in PriceDatas
    /\ fetched \in OrchHistories
    /\ stored \in OrchHistories
    /\ pairs_analysis = NoDoc
    /\ now \in RequestTimes

\* if not price_data: return an error
PriceFetchFailed ==
    /\ phase = "request"
    /\ price_data = NoPriceData
    /\ phase' = "error"
    /\ UNCHANGED <<price_history, df, error, tech, fuser_vars, orch_vars, trend_vars, rest_vars>>

\* the history is too short after the fallback: the basic result is stored
\* (update-all has stored the current candle by then, analyze-pair has not)
StoreBasicResult ==
    /\ phase = "request"
    /\ price_data # NoPriceData
    /\ price_history' = ChosenHistory(fetched, stored, now)
    /\ HistoryTooShort(price_history')
    /\ stored' = IF handler = "update-all"
                 THEN save_price_history(stored, CurrentCandle(price_data, now))
                 ELSE stored
    /\ pairs_analysis' = BasicResult(handler, price_data, now)
    /\ phase' = "basic"
    /\ UNCHANGED <<df, error, tech, fuser_vars, trend_vars, rest_vars>>
    /\ UNCHANGED <<handler, price_data, fetched, now>>

\* the history is long enough: the candle is stored, the analyzer and the
\* generator run, the full analysis is stored
StoreFullAnalysis ==
    /\ phase = "request"
    /\ price_data # NoPriceData
    /\ price_history' = ChosenHistory(fetched, stored, now)
    /\ ~HistoryTooShort(price_history')
    /\ stored' = save_price_history(stored, CurrentCandle(price_data, now))
    /\ IF InsufficientData(price_history')
       THEN \* TechnicalAnalyzer raises; the except clause returns the error
            /\ error' = "ValueError"
            /\ phase' = "error"
            /\ UNCHANGED <<df, tech, fuser_vars, pairs_analysis>>
       ELSE /\ df' = BuildFrame(price_history')
            /\ tech' = TechnicalData(df')
            /\ self_tech'  = [self_tech EXCEPT !["g1"] = tech']
            /\ self_price' = [self_price EXCEPT !["g1"] = InitPrice(Num(price_data.price))]
            /\ locals' = [locals EXCEPT !["g1"] =
                             AllVotes(tech', self_price'["g1"], FreshLocals(locals["g1"]))]
            /\ result' = [result EXCEPT !["g1"] =
                             generate_signal(tech', self_price'["g1"], locals["g1"])]
            /\ pc' = [pc EXCEPT !["g1"] = "done"]
            /\ pairs_analysis' =
                 FullAnalysis(handler, price_data, tech', result'["g1"], now)
            /\ error' = error
            /\ phase' = "full"
    /\ UNCHANGED <<handler, price_data, fetched, now, trend_vars, rest_vars>>

OrchNext == PriceFetchFailed \/ StoreBasicResult \/ StoreFullAnalysis

OrchSpec == OrchInit /\ [][OrchNext]_vars


\* ------------------------------------------- get_trend past its length guard
\* The classification reads three floats; any three can meet.

TrendLevels == {Num(Base - 2), Num(Base - 1), Num(Base), Num(Base + 1), Num(Base + 2)}

TrendInit ==
    /\ InitIdleEngine
    /\ InitIdleFuser
    /\ InitIdleOrch
    /\ InitIdleRest
    /\ trend_locals \in [current_price : TrendLevels, ema_20 : TrendLevels,
                          ema_50 : TrendLevels]
    /\ trend = "none"

\* the if/elif chain of get_trend runs on the three values
Classify ==
    /\ trend = "none"
    /\ trend' = ClassifyTrend(trend_locals)
    /\ UNCHANGED <<engine_vars, fuser_vars, orch_vars, trend_locals, rest_vars>>

TrendNext == Classify

TrendSpec == TrendInit /\ [][TrendNext]_vars


\* ----------------------------- requests for one symbol, one after the other
\* The external fetch keeps returning a short history; a request comes every
\* hour, each served by the same _analyze_pair as above.

\* the requests followed
MaxRequests == 16

\* the histories the external fetch keeps returning
ShortHistories == {<<>>, AscSeries(5, "up", <<>>)}

AccumulateInit ==
    /\ price_history = <<>>
    /\ df = <<>>
    /\ error = "none"
    /\ tech = NoTech
    /\ phase = "request"
    /\ InitIdleFuser
    /\ InitIdleTrend
    /\ InitIdleRest
    /\ handler \in Handlers
    /\ price_data \in PriceDatas
    /\ fetched \in ShortHistories
    /\ stored = <<>>
    /\ pairs_analysis = NoDoc
    /\ now = 1

\* the next request for the symbol: a new handler object, an hour later
NextRequest ==
    /\ phase \in {"basic", "full", "error"}
    /\ now < MaxRequests
    /\ now' = now + 1
    /\ phase' = "request"
    /\ price_history' = <<>>
    /\ df' = <<>>
    /\ error' = "none"
    /\ tech' = NoTech
    /\ self_tech'  = [i \in Instances |-> NoTech]
    /\ self_price' = [i \in Instances |-> Num(0)]
    /\ locals'     = [i \in Instances |-> EmptyLocals]
    /\ pc'         = [i \in Instances |-> "idle"]
    /\ result'     = [i \in Instances |-> NoSignal]
    /\ UNCHANGED <<handler, price_data, fetched, stored, pairs_analysis, trend_vars, rest_vars>>

AccumulateNext == OrchNext \/ NextRequest

AccumulateSpec == AccumulateInit /\ [][AccumulateNext]_vars


\* ------------------------------------------------------------------ volume series
\* The analyzer pipeline on series whose volumes put the ratio of
\* calculate_volume_analysis on and around its two thresholds.

\* <<volume of the earlier bars of the window, volume of the last bar>>
VolumePairs ==
    {<<1000, v>> : v \in {0, 500, 690, 1000, 1500, 1541, 1600, 3000}}
        \cup {<<370, 570>>, <<1930, 1330>>, <<0, 0>>, <<0, 1000>>}

\* n bars at one price; the bars before the last 20 carry another volume
VolumeRun(n, pair) ==
    [i \in 1..n |->
        Bar(i, Base, 1,
            IF i = n THEN pair[2]
            ELSE IF i > n - VOLUME_WINDOW THEN pair[1]
            ELSE 5 * pair[1] + 5000)]

VolumeSeries == {VolumeRun(n, pair) : n \in {5, 20, 30}, pair \in VolumePairs}

VolumeInit ==
    /\ price_history \in VolumeSeries
    /\ df = <<>>
    /\ error = "none"
    /\ tech = NoTech
    /\ phase = "start"
    /\ InitIdleFuser
    /\ InitIdleOrch
    /\ InitIdleTrend
    /\ InitIdleRest

VolumeSpec == VolumeInit /\ [][Next]_vars


\* ------------------------------------------------------------------ levels
\* find_support_resistance past its reads of the frame, on prices and levels
\* of the size the bars of a low-priced pair have.

LevelPrices ==
    {Frac(4, 10000000), Frac(1, 100000), Frac(3, 100000),
     Num(1), Num(Base - 1), Num(Base), Num(Base + 1)}

SupportCandidates    == {Frac(1, 100000), Num(1), Num(Base - 1)}
ResistanceCandidates == {Frac(3, 100000), Num(1), Num(Base + 1)}

LevelInit ==
    /\ InitIdleEngine
    /\ InitIdleFuser
    /\ InitIdleOrch
    /\ InitIdleTrend
    /\ InitIdleMacd
    /\ InitIdleServe
    /\ InitIdleDedupe
    /\ level_locals \in [support_levels    : SUBSET SupportCandidates,
                          resistance_levels : SUBSET ResistanceCandidates,
                          current_price     : LevelPrices]
    /\ levels = NoLevels

\* the selection of the nearest levels and the rounding of the two results
SelectLevels ==
    /\ levels = NoLevels
    /\ levels' = NearestLevels(level_locals)
    /\ UNCHANGED <<engine_vars, fuser_vars, orch_vars, trend_vars, level_locals, macd_vars,
                   serve_vars, dedupe_vars>>

LevelNext == SelectLevels

LevelSpec == LevelInit /\ [][LevelNext]_vars


\* ------------------------------------------------------------------ macd record
\* calculate_macd past its reads of the frame, on line values of the size a
\* settling series leaves.

MacdValues ==
    {Num(0), Frac(4, 10000000), Frac(-4, 10000000), Frac(-9, 10000000),
     Frac(-13, 10000000), Frac(6, 10000000), Frac(1, 1000000),
     Frac(1, 2), Frac(-1, 2), Num(1)}

MacdInit ==
    /\ InitIdleEngine
    /\ InitIdleFuser
    /\ InitIdleOrch
    /\ InitIdleTrend
    /\ InitIdleLevels
    /\ InitIdleServe
    /\ InitIdleDedupe
    /\ \E macd_val \in MacdValues, signal_val \in MacdValues :
          macd_locals = [macd_val   |-> macd_val,
                         signal_val |-> signal_val,
                         hist_val   |-> RSub(macd_val, signal_val)]
    /\ macd = NoMacd

\* the rounding of the three values and the label
BuildMacdRecord ==
    /\ macd = NoMacd
    /\ macd' = MacdRecord(macd_locals)
    /\ UNCHANGED <<engine_vars, fuser_vars, orch_vars, trend_vars, level_vars, macd_locals,
                   serve_vars, dedupe_vars>>

MacdNext == BuildMacdRecord

MacdSpec == MacdInit /\ [][MacdNext]_vars


\* ------------------------------------------------------------------ handlers
\* The control flow of the request handlers of analyze-pair, fetch-news,
\* get-analysis and update-all: what each answers, what it has done to the
\* outside by then, and what has become of its database connection.  What
\* the fetchers and the database answer is the environment's choice.

\* update-all.py: crypto_pairs, forex_pairs
crypto_pairs == <<"BTCUSDT", "ETHUSDT", "ETCUSDT", "SOLUSDT", "DOGEUSDT">>
forex_pairs  == <<"EURUSD", "GBPUSD", "USDJPY", "GBPJPY", "AUDUSD", "USDCAD">>

\* analyze-pair.py do_GET: valid_symbols
valid_symbols == crypto_pairs \o forex_pairs

PairsOf(category) == IF category = "crypto" THEN crypto_pairs ELSE forex_pairs

\* os.environ.get('UPDATE_SECRET_KEY', 'default-secret')
ExpectedKey(environ) == IF environ = "unset" THEN "default-secret" ELSE environ

\* a test that also lets the bare key through
Authorized_KeyOnly(auth_header, expected_key) ==
    auth_header \in {"Bearer " \o expected_key, expected_key}

\* the negation of the test f'Bearer {expected_key}' != auth_header
Authorized(auth_header, expected_key) ==
    ("Bearer " \o expected_key) = auth_header

\* bool(value) of a dict
Truthy(value) == DOMAIN value # {}

Req(endpoint, method, symbol, authorization, environ, readable) ==
    [endpoint |-> endpoint, method |-> method, symbol |-> symbol,
     authorization |-> authorization, environ |-> environ, readable |-> readable]

\* Authorization headers a client can send, and the values of UPDATE_SECRET_KEY
AuthHeaders == {"", "k1", "bearer k1", "Bearer k1", "Bearer k2", "Bearer default-secret"}
Environs    == {"unset", "k1"}

ServeRequests ==
    {Req("analyze-pair", "GET", s, "", "unset", TRUE) :
        s \in {"", "XRPUSDT", "BTCUSDT", "EURUSD"}}
    \cup {Req("analyze-pair", "POST", s, "", "unset", TRUE) :
        s \in {"", "XRPUSDT", "BTCUSDT"}}
    \cup {Req("analyze-pair", "POST", "", "", "unset", FALSE)}
    \cup {Req("fetch-news", "GET", "", "", "unset", TRUE)}
    \cup {Req("get-analysis", "GET", s, "", "unset", TRUE) : s \in {"", "BTCUSDT"}}
    \cup {Req("update-all", "POST", "", a, e, TRUE) : a \in AuthHeaders, e \in Environs}

\* _send_response(status, data) / _send_error(status, message)
Reply(status, body) == [status |-> status, body |-> body]
ErrorBody(message)  == [error |-> message]

ServeInit ==
    /\ InitIdleEngine
    /\ InitIdleFuser
    /\ InitIdleOrch
    /\ InitIdleTrend
    /\ InitIdleLevels
    /\ InitIdleMacd
    /\ InitIdleDedupe
    /\ request \in ServeRequests
    /\ at = "start"
    /\ conn = "none"
    /\ reply = NoReply
    /\ effects = {}
    /\ pair_result = NoResult
    /\ results = NoResults
    /\ cursor = 0

\* analyze-pair --------------------------------------------------------------

\* the status do_GET / do_POST answer with before _analyze_pair is called, 0 if none
SymbolProblem(req) ==
    IF ~req.readable THEN 500
    ELSE IF req.symbol = "" THEN 400
    ELSE IF req.method = "GET"
            /\ req.symbol \notin {valid_symbols[i] : i \in 1..Len(valid_symbols)}
         THEN 400
    ELSE 0

\* do_GET / do_POST: the body cannot be read, or the symbol is missing or invalid
AnalyzeReject ==
    /\ at = "start"
    /\ request.endpoint = "analyze-pair"
    /\ SymbolProblem(request) # 0
    /\ reply' = Reply(SymbolProblem(request), ErrorBody("request"))
    /\ at' = "finished"
    /\ UNCHANGED <<request, conn, effects, pair_result, results, cursor>>
    /\ UNCHANGED <<engine_vars, fuser_vars, orch_vars, trend_vars, level_vars, macd_vars,
                   dedupe_vars>>

\* _analyze_pair: get_db() and the test of its result
AnalyzeConnect ==
    /\ at = "start"
    /\ request.endpoint = "analyze-pair"
    /\ SymbolProblem(request) = 0
    /\ \E connected \in BOOLEAN :
          IF connected
          THEN /\ conn' = "open"
               /\ effects' = effects \cup {"connect"}
               /\ at' = "connected"
               /\ UNCHANGED pair_result
          ELSE /\ pair_result' = ErrorBody("Database connection failed")
               /\ at' = "returned"
               /\ UNCHANGED <<conn, effects>>
    /\ UNCHANGED <<request, reply, results, cursor>>
    /\ UNCHANGED <<engine_vars, fuser_vars, orch_vars, trend_vars, level_vars, macd_vars,
                   dedupe_vars>>

\* _analyze_pair: the price and history fetch and the test of price_data
AnalyzeFetch ==
    /\ at = "connected"
    /\ request.endpoint = "analyze-pair"
    /\ effects' = effects \cup {"fetch"}
    /\ \E outcome \in {"priced", "no_price", "raised"} :
          CASE outcome = "priced" ->
                  /\ at' = "priced"
                  /\ UNCHANGED <<conn, pair_result>>
            [] outcome = "no_price" ->
                  /\ conn' = "closed"
                  /\ pair_result' = ErrorBody("Failed to fetch price data")
                  /\ at' = "returned"
            [] outcome = "raised" ->
                  /\ pair_result' = ErrorBody("exception")
                  /\ at' = "returned"
                  /\ UNCHANGED conn
    /\ UNCHANGED <<request, reply, results, cursor>>
    /\ UNCHANGED <<engine_vars, fuser_vars, orch_vars, trend_vars, level_vars, macd_vars,
                   dedupe_vars>>

\* _analyze_pair from the history fallback to its return: the basic result,
\* the full analysis, or an exception on the way
AnalyzeStore ==
    /\ at = "priced"
    /\ request.endpoint = "analyze-pair"
    /\ \E outcome \in {"basic", "full", "raised"}, written \in BOOLEAN :
          CASE outcome = "basic" ->
                  /\ written
                  /\ effects' = effects \cup {"write"}
                  /\ conn' = "closed"
                  /\ pair_result' = [symbol |-> request.symbol,
                                     direction |-> "INSUFFICIENT_DATA"]
            [] outcome = "full" ->
                  /\ written
                  /\ effects' = effects \cup {"write"}
                  /\ conn' = "closed"
                  /\ pair_result' = [symbol |-> request.symbol,
                                     direction |-> "computed"]
            [] outcome = "raised" ->
                  /\ effects' = IF written THEN effects \cup {"write"} ELSE effects
                  /\ pair_result' = ErrorBody("exception")
                  /\ UNCHANGED conn
    /\ at' = "returned"
    /\ UNCHANGED <<request, reply, results, cursor>>
    /\ UNCHANGED <<engine_vars, fuser_vars, orch_vars, trend_vars, level_vars, macd_vars,
                   dedupe_vars>>

\* do_GET / do_POST: if result: 200 with the result, else 500
AnalyzeRespond ==
    /\ at = "returned"
    /\ request.endpoint = "analyze-pair"
    /\ reply' = IF Truthy(pair_result) THEN Reply(200, pair_result)
                ELSE Reply(500, ErrorBody("Failed to analyze pair"))
    /\ at' = "finished"
    /\ UNCHANGED <<request, conn, effects, pair_result, results, cursor>>
    /\ UNCHANGED <<engine_vars, fuser_vars, orch_vars, trend_vars, level_vars, macd_vars,
                   dedupe_vars>>

\* fetch-news and get-analysis ------------------------------------------------

\* do_GET of fetch-news and of get-analysis: get_db() and the test of its result
ReadConnect ==
    /\ at = "start"
    /\ request.endpoint \in {"fetch-news", "get-analysis"}
    /\ \E connected \in BOOLEAN :
          IF connected
          THEN /\ conn' = "open"
               /\ effects' = effects \cup {"connect"}
               /\ at' = "connected"
               /\ UNCHANGED reply
          ELSE /\ reply' = Reply(500, ErrorBody("Database connection failed"))
               /\ at' = "finished"
               /\ UNCHANGED <<conn, effects>>
    /\ UNCHANGED <<request, pair_result, results, cursor>>
    /\ UNCHANGED <<engine_vars, fuser_vars, orch_vars, trend_vars, level_vars, macd_vars,
                   dedupe_vars>>

\* fetch-news do_GET: fetch_market_news() and the test of articles
NewsFetch ==
    /\ at = "connected"
    /\ request.endpoint = "fetch-news"
    /\ effects' = effects \cup {"fetch"}
    /\ \E outcome \in {"articles", "no_articles", "raised"} :
          CASE outcome = "articles" ->
                  /\ at' = "fetched"
                  /\ UNCHANGED reply
            [] outcome = "no_articles" ->
                  /\ reply' = Reply(200, [success |-> FALSE, count |-> 0])
                  /\ at' = "finished"
            [] outcome = "raised" ->
                  /\ reply' = Reply(500, ErrorBody("exception"))
                  /\ at' = "finished"
    /\ UNCHANGED <<request, conn, pair_result, results, cursor>>
    /\ UNCHANGED <<engine_vars, fuser_vars, orch_vars, trend_vars, level_vars, macd_vars,
                   dedupe_vars>>

\* fetch-news do_GET: the article loop, cleanup_old_news, close and the answer
NewsStore ==
    /\ at = "fetched"
    /\ request.endpoint = "fetch-news"
    /\ \E outcome \in {"stored", "raised"}, written \in BOOLEAN :
          CASE outcome = "stored" ->
                  /\ effects' = (IF written THEN effects \cup {"write"} ELSE effects)
                                    \cup {"cleanup"}
                  /\ conn' = "closed"
                  /\ reply' = Reply(200, [success |-> TRUE, count |-> IF written THEN 1 ELSE 0])
            [] outcome = "raised" ->
                  /\ effects' = IF written THEN effects \cup {"write"} ELSE effects
                  /\ reply' = Reply(500, ErrorBody("exception"))
                  /\ UNCHANGED conn
    /\ at' = "finished"
    /\ UNCHANGED <<request, pair_result, results, cursor>>
    /\ UNCHANGED <<engine_vars, fuser_vars, orch_vars, trend_vars, level_vars, macd_vars,
                   dedupe_vars>>

\* get-analysis do_GET: one pair (found or not) or all pairs, close, the answer
Lookup ==
    /\ at = "connected"
    /\ request.endpoint = "get-analysis"
    /\ \E outcome \in {"found", "not_found", "raised"} :
          CASE outcome = "found" ->
                  /\ reply' = Reply(200, [symbol |-> request.symbol])
                  /\ conn' = "closed"
            [] outcome = "not_found" ->
                  /\ request.symbol # ""
                  /\ reply' = Reply(404, ErrorBody("No analysis found"))
                  /\ conn' = "closed"
            [] outcome = "raised" ->
                  /\ reply' = Reply(500, ErrorBody("exception"))
                  /\ UNCHANGED conn
    /\ at' = "finished"
    /\ UNCHANGED <<request, effects, pair_result, results, cursor>>
    /\ UNCHANGED <<engine_vars, fuser_vars, orch_vars, trend_vars, level_vars, macd_vars,
                   dedupe_vars>>

\* update-all ------------------------------------------------------------------

\* do_POST: the Authorization test
Authorize ==
    /\ at = "start"
    /\ request.endpoint = "update-all"
    /\ IF Authorized(request.authorization, ExpectedKey(request.environ))
       THEN /\ at' = "authorized"
            /\ UNCHANGED reply
       ELSE /\ reply' = Reply(401, ErrorBody("Unauthorized"))
            /\ at' = "finished"
    /\ UNCHANGED <<request, conn, effects, pair_result, results, cursor>>
    /\ UNCHANGED <<engine_vars, fuser_vars, orch_vars, trend_vars, level_vars, macd_vars,
                   dedupe_vars>>

EmptyTally == [success |-> 0, failed |-> 0, pairs |-> <<>>]

\* do_POST: get_db(), the test of its result and the empty results dict
UpdateConnect ==
    /\ at = "authorized"
    /\ request.endpoint = "update-all"
    /\ \E connected \in BOOLEAN :
          IF connected
          THEN /\ conn' = "open"
               /\ effects' = effects \cup {"connect"}
               /\ results' = [crypto |-> EmptyTally, forex |-> EmptyTally,
                              news |-> [processed |-> 0, error |-> FALSE]]
               /\ cursor' = 1
               /\ at' = "crypto"
               /\ UNCHANGED reply
          ELSE /\ reply' = Reply(500, ErrorBody("Database connection failed"))
               /\ at' = "finished"
               /\ UNCHANGED <<conn, effects, results, cursor>>
    /\ UNCHANGED <<request, pair_result>>
    /\ UNCHANGED <<engine_vars, fuser_vars, orch_vars, trend_vars, level_vars, macd_vars,
                   dedupe_vars>>

\* the body of one loop iteration: the counters and the 'pairs' entry
Tally(res, category, symbol, outcome) ==
    IF outcome = "success"
    THEN [res EXCEPT ![category].success = @ + 1,
                     ![category].pairs = Append(@, [symbol |-> symbol, status |-> "success"])]
    ELSE [res EXCEPT ![category].failed = @ + 1,
                     ![category].pairs = Append(@, [symbol |-> symbol, status |-> "failed"])]

\* a loop that an exception ends
LoopAfter_StopOnRaise(category, index, outcome) ==
    IF index < Len(PairsOf(category)) /\ outcome # "raised"
    THEN [at |-> category, cursor |-> index + 1]
    ELSE [at |-> IF category = "crypto" THEN "forex" ELSE "news", cursor |-> 1]

\* where the for loop stands after the iteration at index
LoopAfter(category, index, outcome) ==
    IF index < Len(PairsOf(category))
    THEN [at |-> category, cursor |-> index + 1]
    ELSE [at |-> IF category = "crypto" THEN "forex" ELSE "news", cursor |-> 1]

\* do_POST: one iteration of the crypto loop or of the forex loop; the call
\* of _analyze_pair succeeds, reports a failure, or an exception is caught
ProcessPair ==
    /\ at \in {"crypto", "forex"}
    /\ request.endpoint = "update-all"
    /\ \E outcome \in {"success", "failed", "raised"} :
          LET symbol == PairsOf(at)[cursor]
              after  == LoopAfter(at, cursor, outcome)
          IN  /\ results' = Tally(results, at, symbol, outcome)
              /\ effects' = effects \cup {"fetch"}
                                \cup (IF outcome = "success" THEN {"write"} ELSE {})
              /\ at' = after.at
              /\ cursor' = after.cursor
    /\ UNCHANGED <<request, conn, reply, pair_result>>
    /\ UNCHANGED <<engine_vars, fuser_vars, orch_vars, trend_vars, level_vars, macd_vars,
                   dedupe_vars>>

\* the articles one news fetch can bring
MaxArticles == 2

\* do_POST: the news block inside its own try
ProcessNews ==
    /\ at = "news"
    /\ request.endpoint = "update-all"
    /\ \E processed \in 0..MaxArticles, raised \in BOOLEAN :
          /\ results' = [results EXCEPT !.news = [processed |-> processed, error |-> raised]]
          /\ effects' = effects \cup {"fetch"}
                            \cup (IF processed > 0 THEN {"write"} ELSE {})
    /\ at' = "cleanup"
    /\ UNCHANGED <<request, conn, reply, pair_result, cursor>>
    /\ UNCHANGED <<engine_vars, fuser_vars, orch_vars, trend_vars, level_vars, macd_vars,
                   dedupe_vars>>

\* do_POST: the two cleanups, update_last_run, get_system_stats, close and
\* the answer, or an exception on the way
FinishUpdate ==
    /\ at = "cleanup"
    /\ request.endpoint = "update-all"
    /\ \E raised \in BOOLEAN :
          IF raised
          THEN /\ reply' = Reply(500, ErrorBody("exception"))
               /\ UNCHANGED <<conn, effects>>
          ELSE /\ effects' = effects \cup {"cleanup", "last_run"}
               /\ conn' = "closed"
               /\ reply' = Reply(200, results)
    /\ at' = "finished"
    /\ UNCHANGED <<request, pair_result, results, cursor>>
    /\ UNCHANGED <<engine_vars, fuser_vars, orch_vars, trend_vars, level_vars, macd_vars,
                   dedupe_vars>>

ServeNext ==
    \/ AnalyzeReject \/ AnalyzeConnect \/ AnalyzeFetch \/ AnalyzeStore \/ AnalyzeRespond
    \/ ReadConnect \/ NewsFetch \/ NewsStore \/ Lookup
    \/ Authorize \/ UpdateConnect \/ ProcessPair \/ ProcessNews \/ FinishUpdate

ServeSpec == ServeInit /\ [][ServeNext]_vars


\* ------------------------------------------------------------------ concurrent saves
\* save_news and save_price_history called by two requests that run at the
\* same time: each call is a find_one followed by an insert_one, and the
\* database serves the operations of the two requests in any order.

NewsDocs ==
    {[title |-> "t1", source |-> "s1"], [title |-> "t1", source |-> "s2"],
     [title |-> "t2", source |-> "s1"]}

SaveCalls ==
    {[op |-> "save_news", doc |-> d] : d \in NewsDocs}
    \cup {[op |-> "save_price_history",
           doc |-> CurrentCandle([price |-> Base, volume |-> 1000], t)] : t \in 1..2}

\* the filter of the call's find_one matches the document
MatchesFilter(doc, call) ==
    IF call.op = "save_news"
    THEN doc.title = call.doc.title /\ doc.source = call.doc.source
    ELSE doc.timestamp = call.doc.timestamp

\* collection.find_one(filter): the first matching document, or None
find_one(rows, call) ==
    LET hits == {k \in 1..Len(rows) : MatchesFilter(rows[k], call)}
    IN  IF hits = {} THEN NoDoc
        ELSE rows[CHOOSE k \in hits : \A h \in hits : k <= h]

DedupeInit ==
    /\ InitIdleEngine
    /\ InitIdleFuser
    /\ InitIdleTrend
    /\ InitIdleLevels
    /\ InitIdleMacd
    /\ InitIdleServe
    /\ handler = "none"
    /\ price_data = NoPriceData
    /\ fetched = <<>>
    /\ pairs_analysis = NoDoc
    /\ now = 0
    /\ stored \in {<<>>, <<CurrentCandle([price |-> Base, volume |-> 1000], 1)>>}
    /\ news \in {<<>>, <<[title |-> "t1", source |-> "s1"]>>}
    /\ calls \in [Requests -> SaveCalls]
    /\ save_pc = [r \in Requests |-> "find"]
    /\ existing = [r \in Requests |-> NoDoc]

\* existing = collection.find_one({...})
Find(r) ==
    /\ save_pc[r] = "find"
    /\ existing' = [existing EXCEPT ![r] =
                      find_one(IF calls[r].op = "save_news" THEN news ELSE stored, calls[r])]
    /\ save_pc' = [save_pc EXCEPT ![r] = "test"]
    /\ UNCHANGED <<news, calls, stored>>
    /\ UNCHANGED <<engine_vars, fuser_vars, trend_vars, level_vars, macd_vars, serve_vars>>
    /\ UNCHANGED <<handler, price_data, fetched, pairs_analysis, now>>

\* if not existing: collection.insert_one(...)
Insert(r) ==
    /\ save_pc[r] = "test"
    /\ IF existing[r] = NoDoc
       THEN IF calls[r].op = "save_news"
            THEN news' = Append(news, calls[r].doc) /\ UNCHANGED stored
            ELSE stored' = Append(stored, calls[r].doc) /\ UNCHANGED news
       ELSE UNCHANGED <<news, stored>>
    /\ save_pc' = [save_pc EXCEPT ![r] = "done"]
    /\ UNCHANGED <<calls, existing>>
    /\ UNCHANGED <<engine_vars, fuser_vars, trend_vars, level_vars, macd_vars, serve_vars>>
    /\ UNCHANGED <<handler, price_data, fetched, pairs_analysis, now>>

DedupeNext == \E r \in Requests : Find(r) \/ Insert(r)

DedupeSpec == DedupeInit /\ [][DedupeNext]_vars


\* ================================================================== claims

Analyzed == phase \in {"analyzed", "done"}
Fused(i) == pc[i] = "done" /\ result[i] # NoSignal

\* ------------------------------------------------------------------- C1
\* C1: constructing the analyzer with fewer than 14 points (an empty series
\* included) always ends in ValueError, raised before anything is computed: no
\* frame, no indicator set and no signal ever exist for that series; with 14 or
\* more points the construction succeeds and the frame holds every point.
C1_InsufficientDataFails ==
    /\ phase # "start" =>
        ((Len(price_history) < 14) <=> (error = "ValueError"))
    /\ error = "ValueError" =>
        /\ phase = "failed"
        /\ df = <<>>
        /\ tech = NoTech
        /\ \A i \in Instances : result[i] = NoSignal
    /\ (phase # "start" /\ Len(price_history) >= 14) =>
        /\ error = "none"
        /\ Len(df) = Len(price_history)

\* a series of 13 points has been refused
C1_Witness == phase = "failed" /\ Len(price_history) = 13 /\ error = "ValueError"

\* ------------------------------------------------------------------- C2
VotesLong(i)  == Count(locals[i].signals, "LONG")
VotesShort(i) == Count(locals[i].signals, "SHORT")

\* the summed weight of the votes cast for `vote`, when every recorded weight
\* belongs to a vote
WeightOf(st, vote) ==
    LET RECURSIVE SumTo(_)
        SumTo(k) == IF k = 0 THEN 0
                    ELSE SumTo(k - 1)
                         + (IF st.signals[k] = vote THEN st.confidence_factors[k] ELSE 0)
    IN  SumTo(Len(st.signals))

\* C2: the direction is decided by the number of votes: LONG iff more LONG than
\* SHORT votes were cast, SHORT iff more SHORT than LONG, and NEUTRAL with
\* confidence exactly 40 iff the counts are equal.
C2_DirectionByCount ==
    \A i \in Instances : Fused(i) =>
        /\ (result[i].direction = "LONG")  <=> (VotesLong(i) > VotesShort(i))
        /\ (result[i].direction = "SHORT") <=> (VotesShort(i) > VotesLong(i))
        /\ (result[i].direction = "NEUTRAL" /\ result[i].confidence = Num(40))
              <=> (VotesLong(i) = VotesShort(i))

\* one LONG vote against one SHORT vote of greater weight: NEUTRAL all the same
C2_Witness ==
    /\ Fused("g1")
    /\ VotesLong("g1") = 1 /\ VotesShort("g1") = 1
    /\ Len(locals["g1"].confidence_factors) = 2
    /\ WeightOf(locals["g1"], "SHORT") > WeightOf(locals["g1"], "LONG")
    /\ result["g1"].direction = "NEUTRAL"

\* ------------------------------------------------------------------- C3
\* what a single source casts on its own: the lists after that source alone
SourceVotes(t, price) ==
    <<VoteRsi(t, EmptyLocals), VoteMacd(t, EmptyLocals), VoteBollinger(t, EmptyLocals),
      VoteSupportResistance(t, price, EmptyLocals), VoteTrend(t, EmptyLocals)>>

\* the summed weight of the sources that voted for `vote`
WinningWeight(t, price, vote) ==
    LET sv == SourceVotes(t, price)
        RECURSIVE SumTo(_)
        SumTo(k) == IF k = 0 THEN 0
                    ELSE SumTo(k - 1)
                         + (IF sv[k].signals = <<vote>> THEN sv[k].confidence_factors[1]
                            ELSE 0)
    IN  SumTo(Len(sv))

MinInt(a, b) == IF a < b THEN a ELSE b

\* C3: with unequal vote counts the confidence is min(95, the summed weight of
\* the votes cast for the winning direction); no weight of the losing side or of
\* a source that cast no vote is included.
C3_ConfidenceIsWinningWeight ==
    \A i \in Instances :
        (Fused(i) /\ result[i].direction \in {"LONG", "SHORT"}) =>
            result[i].confidence =
                Num(MinInt(95, WinningWeight(self_tech[i], self_price[i],
                                             result[i].direction)))


\* ------------------------------------------------------------------- C4
\* the inputs of the worked LONG example: all five sources vote LONG
ExampleLong(t, price) ==
    /\ t.rsi = Num(25)
    /\ t.macd.trend = "bullish" /\ t.macd.histogram = Frac(1, 2)
    /\ t.bollinger_bands.position = "oversold"
    /\ t.support_resistance.support = Num(100)
    /\ t.trend = "strong_uptrend"
    /\ t.atr = Num(2)
    /\ price = Num(100)

\* C4: the confidence of every signal lies in [0, 95] and is never 100; with
\* all five sources voting the same way (weights summing to 100) it is 95, and
\* the worked example gives LONG, 95, stop 97.0, target 107.5, risk_reward 2.5.
C4_ConfidenceCapped ==
    \A i \in Instances : Fused(i) =>
        /\ RLe(Num(0), result[i].confidence)
        /\ RLe(result[i].confidence, Num(95))
        /\ result[i].confidence # Num(100)
        /\ (VotesLong(i) = 5 \/ VotesShort(i) = 5) => result[i].confidence = Num(95)
        /\ ExampleLong(self_tech[i], self_price[i]) =>
            /\ result[i].direction = "LONG"
            /\ result[i].confidence = Num(95)
            /\ result[i].sl = Num(97)
            /\ result[i].tp = Frac(1075, 10)
            /\ result[i].risk_reward = Frac(25, 10)

\* the worked example has been fused
C4_Witness ==
    /\ Fused("g1")
    /\ ExampleLong(self_tech["g1"], self_price["g1"])
    /\ VotesLong("g1") = 5
    /\ WeightOf(locals["g1"], "LONG") = 100

\* ------------------------------------------------------------------- C5
\* the closes of the most recent 14-bar window, preceded by the close the first
\* delta of the window is taken from (the first row of a frame has no delta)
WindowDeltas(frame) ==
    LET n == Len(frame)
    IN  [k \in 1..14 |->
            IF n - 14 + k = 1 THEN 0
            ELSE frame[n - 14 + k].close - frame[n - 14 + k - 1].close]

WindowGain(frame) ==
    LET d == WindowDeltas(frame)
        RECURSIVE SumTo(_)
        SumTo(k) == IF k = 0 THEN 0 ELSE SumTo(k - 1) + (IF d[k] > 0 THEN d[k] ELSE 0)
    IN  SumTo(14)

WindowLoss(frame) ==
    LET d == WindowDeltas(frame)
        RECURSIVE SumTo(_)
        SumTo(k) == IF k = 0 THEN 0 ELSE SumTo(k - 1) + (IF d[k] < 0 THEN -d[k] ELSE 0)
    IN  SumTo(14)

NumericFields(t) ==
    {t.rsi, t.macd.macd, t.macd.signal, t.macd.histogram,
     t.bollinger_bands.upper, t.bollinger_bands.middle, t.bollinger_bands.lower,
     t.atr, t.support_resistance.support, t.support_resistance.resistance,
     t.volume.ratio}

\* C6: every numeric field of the indicator set of an accepted series is a
\* finite number, also where the rolling window is longer than the series or a
\* ratio has a zero divisor.
C6_IndicatorsFinite ==
    Analyzed => \A x \in NumericFields(tech) : IsFinite(x)

\* a flat series shorter than the Bollinger window: the RSI ratio is 0/0 and the
\* rolling mean and deviation are undefined, yet the set is finite
C6_Witness ==
    /\ Analyzed
    /\ Len(df) < 20
    /\ WindowGain(df) = 0 /\ WindowLoss(df) = 0
    /\ tech.rsi = Num(50)
    /\ tech.bollinger_bands.upper = RMul(Num(Last(df).close), Frac(102, 100))

\* ------------------------------------------------------------------- C7
\* C7: the RSI of every accepted series lies in [0, 100].
C7_RsiInRange ==
    Analyzed => (RLe(Num(0), tech.rsi) /\ RLe(tech.rsi, Num(100)))

\* a window with gains and losses: an RSI strictly inside the range, off 50
C7_Witness ==
    /\ Analyzed
    /\ WindowGain(df) > 0 /\ WindowLoss(df) > 0
    /\ WindowGain(df) # WindowLoss(df)
    /\ RLt(Num(0), tech.rsi) /\ RLt(tech.rsi, Num(100)) /\ tech.rsi # Num(50)


\* ------------------------------------------------------------------- C8
\* sum of the closes, and of their squares, over the last 20 rows
CloseSum20(frame) ==
    LET n == Len(frame)
        RECURSIVE SumTo(_)
        SumTo(k) == IF k = 0 THEN 0 ELSE SumTo(k - 1) + frame[n - 20 + k].close
    IN  SumTo(20)

CloseSquares20(frame) ==
    LET n == Len(frame)
        RECURSIVE SumTo(_)
        SumTo(k) == IF k = 0 THEN 0
                    ELSE SumTo(k - 1) + frame[n - 20 + k].close * frame[n - 20 + k].close
    IN  SumTo(20)

\* the sample variance of the last 20 closes: (20 S2 - S1^2) / (20 * 19)
SampleVariance20(frame) ==
    Frac(20 * CloseSquares20(frame) - CloseSum20(frame) * CloseSum20(frame), 20 * 19)

\* C8: for a series of at least 20 points lower <= middle <= upper, middle is
\* the mean of the last 20 closes, upper and lower lie at the same distance
\* from it, that distance is twice the sample standard deviation of those 20
\* closes (to the precision of the square root), and a zero-variance window
\* gives lower = middle = upper.
C8_BollingerOrdered ==
    (Analyzed /\ Len(df) >= 20) =>
        LET bb   == tech.bollinger_bands
            var  == SampleVariance20(df)
            dist == RSub(bb.upper, bb.middle)
            std  == RDiv(dist, Num(2))
            next == RAdd(std, Frac(1, Resolution))
        IN  /\ RLe(bb.lower, bb.middle) /\ RLe(bb.middle, bb.upper)
            /\ bb.middle = Frac(CloseSum20(df), 20)
            /\ RSub(bb.middle, bb.lower) = dist
            /\ RLe(RMul(std, std), var) /\ RLt(var, RMul(next, next))
            /\ (var = Num(0)) => (bb.lower = bb.middle /\ bb.middle = bb.upper)

\* a window of 20 closes with a positive variance: three distinct bands
C8_Witness ==
    /\ Analyzed
    /\ Len(df) >= 20
    /\ RGt(SampleVariance20(df), Num(0))
    /\ RLt(tech.bollinger_bands.lower, tech.bollinger_bands.middle)
    /\ RLt(tech.bollinger_bands.middle, tech.bollinger_bands.upper)

\* ------------------------------------------------------------------- C9
\* C9: the trend of a series of 14 to 49 points is 'insufficient_data', and the
\* trend of a series of 50 or more points never is.
C9_TrendNeedsFifty ==
    Analyzed =>
        /\ (Len(price_history) >= 14 /\ Len(price_history) <= 49)
              => tech.trend = "insufficient_data"
        /\ Len(price_history) >= 50 => tech.trend # "insufficient_data"

\* a series of exactly 50 points has been classified
C9_Witness ==
    /\ Analyzed
    /\ Len(price_history) = 50
    /\ tech.trend \in {"strong_uptrend", "uptrend", "strong_downtrend", "downtrend",
                       "sideways"}

\* ------------------------------------------------------------------ C10
\* C10: two generators that have returned for the same technical_data and the
\* same price hold the same Signal, whatever either of them was called with
\* before and however their calls were interleaved.
C10_SameInputsSameSignal ==
    \A i, j \in Instances :
        (Fused(i) /\ Fused(j)
         /\ self_tech[i] = self_tech[j] /\ self_price[i] = self_price[j])
            => result[i] = result[j]

\* both generators have returned for the same inputs
C10_Witness ==
    /\ Fused("g1") /\ Fused("g2")
    /\ self_tech["g1"] = self_tech["g2"]
    /\ self_price["g1"] = self_price["g2"]
    /\ result["g1"] = result["g2"]
    /\ result["g1"].direction = "LONG"

\* ------------------------------------------------------------------ C11
\* C11: for every finite ATR >= 0 the reported risk_reward is 2.5, however
\* small the ATR is, the fallback 2.5 standing in when the stop distance is 0.
C11_RiskRewardConstant ==
    \A i \in Instances :
        (Fused(i) /\ IsFinite(self_tech[i].atr) /\ RGe(self_tech[i].atr, Num(0)))
            => result[i].risk_reward = Frac(25, 10)

\* ------------------------------------------------------------------ C12
\* the stop and target distances generate_signal works with
StopDistance(t)   == calculate_position_size(t).sl_distance
TargetDistance(t) == calculate_position_size(t).tp_distance

\* C12: the entry is the current price; LONG and NEUTRAL put the stop below and
\* the target above the entry by the stop and target distances, SHORT the other
\* way round; so for ATR > 0, sl < entry < tp for LONG and NEUTRAL and
\* tp < entry < sl for SHORT.
C12_LevelsAroundEntry ==
    \A i \in Instances : Fused(i) =>
        LET r   == result[i]
            t   == self_tech[i]
            pos == IsFinite(t.atr) /\ RGt(t.atr, Num(0))
        IN  /\ r.entry = self_price[i]
            /\ r.direction \in {"LONG", "NEUTRAL"} =>
                /\ r.sl = Round(RSub(r.entry, StopDistance(t)), 6)
                /\ r.tp = Round(RAdd(r.entry, TargetDistance(t)), 6)
                /\ pos => (RLt(r.sl, r.entry) /\ RLt(r.entry, r.tp))
            /\ r.direction = "SHORT" =>
                /\ r.sl = Round(RAdd(r.entry, StopDistance(t)), 6)
                /\ r.tp = Round(RSub(r.entry, TargetDistance(t)), 6)
                /\ pos => (RLt(r.tp, r.entry) /\ RLt(r.entry, r.sl))

\* ------------------------------------------------------------------ C14
SignalKeys == {"direction", "confidence", "entry", "tp", "sl", "risk_reward", "atr"}

\* a call whose price is not positive or whose ATR is zero
DegenerateInput(i) ==
    \/ RLe(self_price[i], Num(0))
    \/ self_tech[i].atr = Num(0)

\* C14: for a price <= 0 (a missing or non-finite price counts as 0) and for
\* ATR = 0, generate_signal returns a complete Signal of finite numbers and
\* raises nothing; with ATR = 0 the stop and the target equal the entry and
\* risk_reward is the fallback 2.5.
C14_DegenerateInputsNotFatal ==
    \A i \in Instances : (Fused(i) /\ DegenerateInput(i)) =>
        /\ DOMAIN result[i] = SignalKeys
        /\ result[i].direction \in {"LONG", "SHORT", "NEUTRAL"}
        /\ \A k \in SignalKeys \ {"direction"} : IsFinite(result[i][k])
        /\ self_tech[i].atr = Num(0) =>
            /\ result[i].sl = result[i].entry
            /\ result[i].tp = result[i].entry
            /\ result[i].risk_reward = Frac(25, 10)

\* a price of 0 with ATR 0 has been fused
C14_Witness ==
    /\ Fused("g1")
    /\ self_price["g1"] = Num(0)
    /\ self_tech["g1"].atr = Num(0)
    /\ result["g1"].entry = Num(0)
    /\ result["g1"].sl = Num(0)
    /\ result["g1"].risk_reward = Frac(25, 10)

\* ------------------------------------------------------------------ C17
NeutralRsi(t) == RLt(Num(40), t.rsi) /\ RLt(t.rsi, Num(60))

\* the Signal of the same call with an RSI of 35, which casts no vote and
\* tracks no weight
WithSilentRsi(i) ==
    generate_signal([self_tech[i] EXCEPT !.rsi = Num(35)], self_price[i], EmptyLocals)

\* C17: an RSI between 40 and 60 casts no vote and its tracked weight 10 never
\* changes the Signal: direction and confidence are those of the same inputs
\* with an RSI of 35.
C17_NeutralRsiChangesNothing ==
    \A i \in Instances : (Fused(i) /\ NeutralRsi(self_tech[i])) =>
        /\ VotesLong(i) + VotesShort(i) = Len(locals[i].confidence_factors) - 1
        /\ result[i].direction = WithSilentRsi(i).direction
        /\ result[i].confidence = WithSilentRsi(i).confidence

\* ------------------------------------------------------------------ C19
\* the vote and the weight each source is stated to cast
StatedRsi(t) ==
    IF RLt(t.rsi, Num(30)) THEN [signals |-> <<"LONG">>, confidence_factors |-> <<25>>]
    ELSE IF RGt(t.rsi, Num(70)) THEN [signals |-> <<"SHORT">>, confidence_factors |-> <<25>>]
    ELSE IF NeutralRsi(t) THEN [signals |-> <<>>, confidence_factors |-> <<10>>]
    ELSE EmptyLocals

StatedMacd(t) ==
    IF t.macd.trend = "bullish" /\ RGt(t.macd.histogram, Num(0))
    THEN [signals |-> <<"LONG">>, confidence_factors |-> <<20>>]
    ELSE IF t.macd.trend = "bearish" /\ RLt(t.macd.histogram, Num(0))
    THEN [signals |-> <<"SHORT">>, confidence_factors |-> <<20>>]
    ELSE EmptyLocals

StatedBollinger(t) ==
    IF t.bollinger_bands.position = "oversold"
    THEN [signals |-> <<"LONG">>, confidence_factors |-> <<15>>]
    ELSE IF t.bollinger_bands.position = "overbought"
    THEN [signals |-> <<"SHORT">>, confidence_factors |-> <<15>>]
    ELSE EmptyLocals

StatedTrend(t) ==
    IF t.trend \in {"strong_uptrend", "uptrend"}
    THEN [signals |-> <<"LONG">>, confidence_factors |-> <<20>>]
    ELSE IF t.trend \in {"strong_downtrend", "downtrend"}
    THEN [signals |-> <<"SHORT">>, confidence_factors |-> <<20>>]
    ELSE EmptyLocals

\* the lists of a call, minus what the four sources above are stated to put
\* there: what is left is the contribution of the support/resistance source
Before(t) ==
    [signals |-> StatedRsi(t).signals \o StatedMacd(t).signals
                    \o StatedBollinger(t).signals,
     confidence_factors |-> StatedRsi(t).confidence_factors
                    \o StatedMacd(t).confidence_factors
                    \o StatedBollinger(t).confidence_factors]

IsPrefix(a, b) == Len(a) <= Len(b) /\ SubSeq(b, 1, Len(a)) = a
IsSuffix(a, b) == Len(a) <= Len(b) /\ SubSeq(b, Len(b) - Len(a) + 1, Len(b)) = a

\* C19: at most five votes are cast, one per source at most; the RSI, MACD,
\* Bollinger and trend sources cast exactly the stated vote with the stated
\* weight, in that order around the single support/resistance entry (MACD none
\* on a zero histogram, trend none on sideways and insufficient_data).
C19_OneVotePerSource ==
    \A i \in Instances : Fused(i) =>
        LET st == locals[i]
            t  == self_tech[i]
        IN  /\ VotesLong(i) + VotesShort(i) <= 5
            /\ VotesLong(i) + VotesShort(i) = Len(st.signals)
            /\ IsPrefix(Before(t).signals, st.signals)
            /\ IsPrefix(Before(t).confidence_factors, st.confidence_factors)
            /\ IsSuffix(StatedTrend(t).signals, st.signals)
            /\ IsSuffix(StatedTrend(t).confidence_factors, st.confidence_factors)
            /\ Len(st.signals) - Len(Before(t).signals) - Len(StatedTrend(t).signals)
                  \in {0, 1}

\* a bullish MACD with a zero histogram next to four voting sources
C19_Witness ==
    /\ Fused("g1")
    /\ self_tech["g1"].macd.trend = "bullish"
    /\ self_tech["g1"].macd.histogram = Num(0)
    /\ self_tech["g1"].rsi = Num(75)
    /\ self_tech["g1"].trend = "downtrend"
    /\ locals["g1"].signals = <<"SHORT", "LONG", "LONG", "SHORT">>
    /\ locals["g1"].confidence_factors = <<25, 15, 20, 20>>

\* ------------------------------------------------------------------ C20
\* the vote the support/resistance source left in the lists of call i
SupportResistanceVote(i) ==
    SubSeq(locals[i].signals,
           Len(Before(self_tech[i]).signals) + 1,
           Len(locals[i].signals) - Len(StatedTrend(self_tech[i]).signals))

\* the levels the source works with: the given ones, or 3% off the price
SupportLevel(i) ==
    safe_float(self_tech[i].support_resistance.support,
               RMul(self_price[i], Frac(97, 100)))
ResistanceLevel(i) ==
    safe_float(self_tech[i].support_resistance.resistance,
               RMul(self_price[i], Frac(103, 100)))

NearSupport(i) ==
    /\ RLe(SupportLevel(i), self_price[i])
    /\ RLe(self_price[i], RMul(SupportLevel(i), Frac(101, 100)))
NearResistance(i) ==
    /\ RLe(RMul(ResistanceLevel(i), Frac(99, 100)), self_price[i])
    /\ RLe(self_price[i], ResistanceLevel(i))

\* C20: the support/resistance source votes LONG only for a price within 1%
\* above support, SHORT only for a price within 1% below resistance, and casts
\* no vote for a price outside both bands.
C20_VoteOnlyNearLevel ==
    \A i \in Instances : Fused(i) =>
        /\ SupportResistanceVote(i) = <<"LONG">>  => NearSupport(i)
        /\ SupportResistanceVote(i) = <<"SHORT">> => NearResistance(i)
        /\ (~NearSupport(i) /\ ~NearResistance(i)) => SupportResistanceVote(i) = <<>>

\* ------------------------------------------------------------------ C18
Classified == trend # "none"

\* C18: past the length guard get_trend takes the first match of
\* strong_uptrend (price > EMA20 > EMA50), uptrend (price > EMA20 or
\* EMA20 > EMA50), strong_downtrend (price < EMA20 < EMA50), downtrend
\* (price < EMA20 or EMA20 < EMA50), sideways; so a price below EMA20 with
\* EMA20 above EMA50 is 'uptrend', 'downtrend' needs price <= EMA20 <= EMA50
\* with exactly one equality, and 'sideways' is exactly price = EMA20 = EMA50.
C18_TrendPrecedence ==
    Classified =>
        LET p   == trend_locals.current_price
            e20 == trend_locals.ema_20
            e50 == trend_locals.ema_50
            su  == RGt(p, e20) /\ RGt(e20, e50)
            u   == RGt(p, e20) \/ RGt(e20, e50)
            sd  == RLt(p, e20) /\ RLt(e20, e50)
            d   == RLt(p, e20) \/ RLt(e20, e50)
        IN  /\ (trend = "strong_uptrend")   <=> su
            /\ (trend = "uptrend")          <=> (~su /\ u)
            /\ (trend = "strong_downtrend") <=> (~su /\ ~u /\ sd)
            /\ (trend = "downtrend")        <=> (~su /\ ~u /\ ~sd /\ d)
            /\ (trend = "sideways")         <=> (~su /\ ~u /\ ~sd /\ ~d)
            /\ (RLt(p, e20) /\ RGt(e20, e50)) => trend = "uptrend"
            /\ (trend = "downtrend") =>
                  /\ RLe(p, e20) /\ RLe(e20, e50)
                  /\ (p = e20) # (e20 = e50)
            /\ (trend = "sideways") <=> (p = e20 /\ e20 = e50)

\* a price below EMA20 with EMA20 above EMA50 has been classified
C18_Witness ==
    /\ Classified
    /\ RLt(trend_locals.current_price, trend_locals.ema_20)
    /\ RGt(trend_locals.ema_20, trend_locals.ema_50)
    /\ trend = "uptrend"

\* ------------------------------------------------------------------ C15
HasFrame == phase \in {"constructed", "analyzed", "done"}

\* the rows of a series oldest first, read off the timestamps (1, 2, ..., n in
\* every series supplied)
OldestFirst(rows) ==
    [k \in 1..Len(rows) |-> CHOOSE r \in {rows[j] : j \in 1..Len(rows)} : r.timestamp = k]

\* C15: whatever the order of the rows supplied (timestamps pairwise
\* distinct), the frame holds the same rows in ascending timestamp order, its
\* last row is the bar with the latest timestamp, and the indicators are those
\* of the series sorted by timestamp.
C15_SortedBeforeComputation ==
    HasFrame =>
        LET n   == Len(df)
            asc == OldestFirst(price_history)
        IN  /\ n = Len(price_history)
            /\ \A k \in 1..(n - 1) : df[k].timestamp < df[k + 1].timestamp
            /\ {df[k] : k \in 1..n} = {price_history[k] : k \in 1..n}
            /\ \A k \in 1..n : price_history[k].timestamp <= df[n].timestamp
            /\ Analyzed =>
                /\ tech.rsi = calculate_rsi(asc)
                /\ tech.bollinger_bands = calculate_bollinger_bands(asc)
                /\ tech.atr = calculate_atr(asc)
                /\ tech.support_resistance = find_support_resistance(asc)
                /\ tech.volume = calculate_volume_analysis(asc)

\* a rising series supplied with its oldest bar last has been analysed
C15_Witness ==
    /\ Analyzed
    /\ Len(price_history) >= 14
    /\ price_history[1].timestamp = 2
    /\ price_history[Len(price_history)].timestamp = 1
    /\ df[1].timestamp = 1
    /\ df[Len(df)].close > price_history[Len(price_history)].close

\* ------------------------------------------------------------------ C16
\* C16: no step of the engine changes the caller's price sequence, and once
\* the IndicatorSet exists no step (generate_signal included) changes it.
C16_InputsUntouched ==
    [][/\ price_history' = price_history
       /\ tech # NoTech => tech' = tech]_vars

\* a series supplied newest first has gone through the engine and the fuser and
\* is still newest first
C16_Witness ==
    /\ phase = "done"
    /\ Len(price_history) >= 14
    /\ price_history[1].timestamp = Len(price_history)
    /\ df[1].timestamp = 1
    /\ result["g1"] # NoSignal
    /\ self_tech["g1"] = tech

\* ------------------------------------------------------------------ C13
\* the candles stored for the symbol inside the 168-hour window when the
\* request ran (the candle the request itself adds carries the time `now`)
StoredInWindow ==
    Cardinality({k \in 1..Len(stored) :
                    stored[k].timestamp >= now - 168 /\ stored[k].timestamp < now})

\* fewer than 14 points after the external fetch and the stored fallback
TooFewPoints == Len(fetched) < 14 /\ StoredInWindow < 14

Served == phase \in {"basic", "full", "error"} /\ price_data # NoPriceData

\* C13: a request with a current price and fewer than 14 points after the fetch
\* and the stored fallback never constructs the analyzer and stores the analysis
\* with technical = None and signal INSUFFICIENT_DATA, confidence 0,
\* entry = price, tp = price x 1.02, sl = price x 0.98, risk_reward 2.0; with 14
\* or more points the analyzer and the generator run and their output is stored.
C13_FallbackBelowFourteen ==
    Served =>
        LET price == Num(price_data.price)
        IN  IF TooFewPoints
            THEN /\ phase = "basic"
                 /\ df = <<>> /\ tech = NoTech /\ error = "none"
                 /\ \A i \in Instances : result[i] = NoSignal
                 /\ pairs_analysis # NoDoc
                 /\ pairs_analysis.technical = TechnicalNone
                 /\ pairs_analysis.signal =
                        [direction   |-> "INSUFFICIENT_DATA",
                         confidence  |-> Num(0),
                         entry       |-> price,
                         tp          |-> RMul(price, Frac(102, 100)),
                         sl          |-> RMul(price, Frac(98, 100)),
                         risk_reward |-> Num(2)]
            ELSE /\ phase = "full"
                 /\ Len(df) >= 14 /\ error = "none"
                 /\ tech # NoTech
                 /\ result["g1"] # NoSignal
                 /\ result["g1"].direction \in {"LONG", "SHORT", "NEUTRAL"}
                 /\ pairs_analysis # NoDoc
                 /\ pairs_analysis.technical = tech
                 /\ pairs_analysis.signal = result["g1"]

\* 13 fetched and 13 stored points: the basic result has been stored
C13_Witness ==
    /\ phase = "basic"
    /\ Len(fetched) = 13
    /\ StoredInWindow = 13
    /\ df = <<>>
    /\ pairs_analysis # NoDoc
    /\ pairs_analysis.signal.direction = "INSUFFICIENT_DATA"

\* ------------------------------------------------------------------ C24
\* the two bands the label is taken from, before they are rounded for the
\* returned record: mean +- 2 standard deviations of the last 20 closes, or
\* close * 1.02 and close * 0.98 while there are fewer than 20 rows
UpperBand(frame) ==
    IF Len(frame) >= 20
    THEN RAdd(Frac(CloseSum20(frame), 20), RMul(Num(2), RollingStdLast(Close(frame), 20)))
    ELSE RMul(Num(frame[Len(frame)].close), Frac(102, 100))

LowerBand(frame) ==
    IF Len(frame) >= 20
    THEN RSub(Frac(CloseSum20(frame), 20), RMul(Num(2), RollingStdLast(Close(frame), 20)))
    ELSE RMul(Num(frame[Len(frame)].close), Frac(98, 100))

\* C24: the position is 'overbought' iff the current close >= the upper band,
\* 'oversold' iff the close <= the lower band and the close < the upper band,
\* 'neutral' otherwise; a zero-variance window of 20 closes is 'overbought'.
C24_PositionByBands ==
    Analyzed =>
        LET close == Num(df[Len(df)].close)
            upper == UpperBand(df)
            lower == LowerBand(df)
            label == tech.bollinger_bands.position
        IN  /\ label \in {"overbought", "oversold", "neutral"}
            /\ label = "overbought" <=> RGe(close, upper)
            /\ label = "oversold" <=> (RLe(close, lower) /\ RLt(close, upper))
            /\ (Len(df) >= 20 /\ SampleVariance20(df) = Num(0)) => label = "overbought"

\* a window of 20 equal closes has been labelled
C24_Witness ==
    /\ Analyzed
    /\ Len(df) >= 20
    /\ SampleVariance20(df) = Num(0)
    /\ UpperBand(df) = LowerBand(df)
    /\ tech.bollinger_bands.position = "overbought"

\* ------------------------------------------------------------------ C26
\* C26: every request that obtained a price leaves its candle in price_history,
\* the basic-result requests included; so with hourly requests and a short
\* external history 14 candles are stored once 14 requests were served, and
\* every request after the 14th stores a real signal.
C26_CandlePerPricedRequest ==
    phase \in {"basic", "full"} =>
        /\ \E k \in 1..Len(stored) : stored[k].timestamp = now
        /\ now >= HISTORY_MIN => Len(stored) >= HISTORY_MIN
        /\ now > HISTORY_MIN =>
              /\ phase = "full"
              /\ pairs_analysis.signal.direction \in {"LONG", "SHORT", "NEUTRAL"}


\* the volumes of the trailing min(20, n) bars of the frame
WindowVolumes(frame) ==
    LET k == IF Len(frame) < VOLUME_WINDOW THEN Len(frame) ELSE VOLUME_WINDOW
    IN  [i \in 1..k |-> frame[Len(frame) - k + i].volume]

WindowVolumeSum(frame) ==
    LET w == WindowVolumes(frame)
        RECURSIVE Upto(_)
        Upto(i) == IF i = 0 THEN 0 ELSE Upto(i - 1) + w[i]
    IN  Upto(Len(w))

\* C21: the volume record carries the ratio of the current volume to the mean
\* of the trailing 20 volumes (1.0 when that mean is 0), and its status agrees
\* with the ratio field it carries: 'high' iff ratio > 1.5, 'normal' iff
\* 0.7 < ratio <= 1.5, 'low' otherwise
C21_StatusAgreesWithRatio ==
    Analyzed =>
        LET v     == tech.volume
            total == WindowVolumeSum(df)
            k     == Len(WindowVolumes(df))
        IN  /\ total = 0 => v.ratio = Num(1)
            /\ total > 0 => v.ratio = Round(Frac(df[Len(df)].volume * k, total), 2)
            /\ v.status = "high"   <=> RGt(v.ratio, Frac(15, 10))
            /\ v.status = "normal" <=> (RGt(v.ratio, Frac(7, 10)) /\ RLe(v.ratio, Frac(15, 10)))
            /\ v.status = "low"    <=> RLe(v.ratio, Frac(7, 10))


\* C22: support is the greatest local minimum strictly below the current
\* close, or close x 0.97 when there is none, resistance is the least local
\* maximum strictly above it, or close x 1.03 when there is none; hence with
\* a positive current close, support < close < resistance
C22_LevelsBracketClose ==
    levels # NoLevels =>
        LET close  == level_locals.current_price
            below  == {x \in level_locals.support_levels : RLt(x, close)}
            above  == {x \in level_locals.resistance_levels : RGt(x, close)}
        IN  /\ below # {} =>
                   \E s \in below : /\ \A x \in below : RLe(x, s)
                                    /\ levels.support = Round(s, 6)
            /\ below = {} => levels.support = Round(RMul(close, Frac(97, 100)), 6)
            /\ above # {} =>
                   \E r \in above : /\ \A x \in above : RGe(x, r)
                                    /\ levels.resistance = Round(r, 6)
            /\ above = {} => levels.resistance = Round(RMul(close, Frac(103, 100)), 6)
            /\ RGt(close, Num(0)) =>
                   /\ RLt(levels.support, close)
                   /\ RLt(close, levels.resistance)

\* C23: in the MACD record, histogram = macd - signal, and the label is
\* 'bullish' iff the histogram field is > 0, 'bearish' otherwise
C23_HistogramAndLabel ==
    macd # NoMacd =>
        /\ macd.histogram = RSub(macd.macd, macd.signal)
        /\ macd.trend \in {"bullish", "bearish"}
        /\ macd.trend = "bullish" <=> RGt(macd.histogram, Num(0))


\* C25: when _analyze_pair of analyze-pair could not produce an analysis
\* (no database connection, no price data, an exception), the handler answers
\* 500, never 200 with the error as its body
C25_FailedAnalysisAnswers500 ==
    (/\ request # NoRequest
     /\ request.endpoint = "analyze-pair"
     /\ at = "finished"
     /\ "error" \in DOMAIN pair_result)
        => reply.status = 500

\* the symbols of a 'pairs' list, in its order
SymbolsOf(pairs) == [i \in 1..Len(pairs) |-> pairs[i].symbol]

\* the tally of a category accounts for exactly the first n pairs of its list
TallyCovers(tally, category, n) ==
    /\ tally.success + tally.failed = n
    /\ SymbolsOf(tally.pairs) = SubSeq(PairsOf(category), 1, n)
    /\ Cardinality({i \in 1..Len(tally.pairs) : tally.pairs[i].status = "success"})
           = tally.success

\* C28: an authorized update-all run processes every crypto and forex pair
\* exactly once in list order, whatever fails on the way: while a loop runs
\* its tally covers the pairs before the cursor, and from the end of the
\* loops to the response built from it, success + failed is the number of
\* pairs of each category and 'pairs' holds one entry per symbol
C28_EveryPairOnce ==
    (request # NoRequest /\ request.endpoint = "update-all" /\ results # NoResults) =>
        /\ at = "crypto" =>
              /\ TallyCovers(results.crypto, "crypto", cursor - 1)
              /\ TallyCovers(results.forex, "forex", 0)
        /\ at = "forex" =>
              /\ TallyCovers(results.crypto, "crypto", Len(crypto_pairs))
              /\ TallyCovers(results.forex, "forex", cursor - 1)
        /\ at \in {"news", "cleanup", "finished"} =>
              /\ TallyCovers(results.crypto, "crypto", Len(crypto_pairs))
              /\ TallyCovers(results.forex, "forex", Len(forex_pairs))
        /\ (at = "finished" /\ reply.status = 200) => reply.body = results

C28_Witness ==
    /\ request # NoRequest
    /\ request.endpoint = "update-all"
    /\ at = "finished"
    /\ reply.status = 200
    /\ reply.body.crypto.pairs[1].status = "failed"
    /\ reply.body.crypto.pairs[5].status = "success"
    /\ reply.body.forex.failed = 2
    /\ reply.body.forex.pairs[6].status = "success"

\* C29: a handler that got a connection from get_db has closed it when it
\* finishes, on every path
C29_ConnectionClosedAtFinish ==
    at = "finished" => conn # "open"

\* C30: an update-all POST whose Authorization header is not 'Bearer '
\* followed by the configured key is answered 401 and nothing has happened
\* by then: no fetch, no connection, no write, no cleanup, no last-run
\* update; nor has any of these happened before the test has passed
C30_UnauthorizedHasNoEffect ==
    (request # NoRequest /\ request.endpoint = "update-all") =>
        /\ at = "start" => (effects = {} /\ conn = "none" /\ results = NoResults)
        /\ request.authorization # "Bearer " \o ExpectedKey(request.environ) =>
              /\ effects = {}
              /\ conn = "none"
              /\ results = NoResults
              /\ at \in {"start", "finished"}
              /\ at = "finished" => reply.status = 401

C30_Witness ==
    /\ request # NoRequest
    /\ request.endpoint = "update-all"
    /\ request.environ = "k1"
    /\ request.authorization = "k1"
    /\ at = "finished"
    /\ reply.status = 401
    /\ effects = {}


\* C27: after any interleaving of save_news calls the news collection holds
\* at most one document per (title, source), and after any interleaving of
\* save_price_history calls the symbol's price history holds at most one
\* document per timestamp
C27_OneDocumentPerKey ==
    /\ \A i, j \in 1..Len(news) :
          (news[i].title = news[j].title /\ news[i].source = news[j].source) => i = j
    /\ \A i, j \in 1..Len(stored) :
          stored[i].timestamp = stored[j].timestamp => i = j

=============================================================================
